---------------------------- MODULE Spec2Model ----------------------------
(***************************************************************************)
(* monkey-moves-mirror: the pose similarity scorer                         *)
(* (src/src/utils/poseComparison.ts), the avatar renderers                 *)
(* (src/src/components/AvatarRenderer.tsx, ReferenceAvatarRenderer.tsx,    *)
(* src/unnamed/part_000) and the tracking loop (PoseTracker.tsx).          *)
(*                                                                         *)
(* Numbers.  JavaScript numbers are modelled as fixed-point integers:      *)
(*   - a coordinate or a visibility c is the integer c * Grid;             *)
(*   - a similarity s is the integer s * SimScale;                         *)
(*   - Math.sqrt is computed to the resolution 1/SimScale, rounded down.   *)
(* With Grid = 100 and SimScale = 3000 a planar distance of r hundredths   *)
(* gives the similarity SimScale - 100 * r exactly.                        *)
(*                                                                         *)
(* Optional fields (z, visibility) are <<>> when absent and <<v>> when     *)
(* present.  An array slot that holds no landmark is Undefined.            *)
(***************************************************************************)
EXTENDS Integers, Sequences, FiniteSets, TLC

VARIABLES pose1, pose2, outcome,      \* calculatePoseSimilarity: arguments, outcome
          l1, l2, similarity,         \* calculateJointSimilarity: arguments, result
          accuracy, feedback, celebrate, \* getFeedbackMessage / shouldCelebrate
          canvas,                     \* a renderer's canvas: component, context, surface
          render,                     \* the renderer's last invocation
          tracker                     \* PoseTracker: state, refs, the running loop

scorerVars == <<pose1, pose2, outcome, l1, l2, similarity, accuracy, feedback, celebrate>>
rendererVars == <<canvas, render>>

vars == <<scorerVars, rendererVars, tracker>>

---------------------------------------------------------------------------
(* Units *)
Grid == 100
SimScale == 3000

(* Program constants *)
KEY_LANDMARKS == <<11, 12, 13, 14, 15, 16, 23, 24, 25, 26, 27, 28>>
VisibilityThreshold == 50       \* 0.5
NumLandmarks == 33
Percent == 100

KeySet == {KEY_LANDMARKS[i] : i \in 1..Len(KEY_LANDMARKS)}

(* Values *)
Absent == <<>>
Undefined == [undefined |-> TRUE]
NullPose == [null |-> TRUE]
PoseWithoutLandmarks == [worldLandmarks |-> <<>>]

Landmark(x, y, z, v) == [x |-> x, y |-> y, z |-> z, visibility |-> v]
Pose(lms) == [landmarks |-> lms]

IsLandmark(l) == DOMAIN l = {"x", "y", "z", "visibility"}
HasLandmarks(p) == DOMAIN p = {"landmarks"}

\* landmarks[idx] of a JavaScript array (0-based)
At(lms, idx) == lms[idx + 1]

\* `opt || dflt`: an absent or zero (falsy) number yields the default
OrDefault(opt, dflt) == IF opt = Absent \/ opt[1] = 0 THEN dflt ELSE opt[1]

---------------------------------------------------------------------------
(* Math.sqrt at integer resolution: the largest r with r * r <= v *)
RECURSIVE SqrtSearch(_, _, _)
SqrtSearch(v, lo, hi) ==
    IF lo >= hi THEN lo
    ELSE LET mid == (lo + hi + 1) \div 2
         IN  IF mid * mid <= v THEN SqrtSearch(v, mid, hi)
                               ELSE SqrtSearch(v, lo, mid - 1)

Sqrt(v) == SqrtSearch(v, 0, 32768)

Max(a, b) == IF a >= b THEN a ELSE b

\* the depth term counted in full
SquaredDistanceFullDepth(a, b) ==
    LET dx == a.x - b.x
        dy == a.y - b.y
        dz == OrDefault(a.z, 0) - OrDefault(b.z, 0)
    IN  10 * dx * dx + 10 * dy * dy + 10 * dz * dz

\* dx*dx + dy*dy + dz*dz*0.3, in units of 1 / (10 * Grid^2)
SquaredDistance(a, b) ==
    LET dx == a.x - b.x
        dy == a.y - b.y
        dz == OrDefault(a.z, 0) - OrDefault(b.z, 0)
    IN  10 * dx * dx + 10 * dy * dy + 3 * dz * dz

\* distance / 0.5 in units of 1/SimScale: a maximal distance of 0.5 instead of 0.3
DistanceOverHalf(a, b) ==
    Sqrt(((2 * SimScale * SimScale) \div (5 * Grid * Grid)) * SquaredDistance(a, b))

\* distance / 0.3 in units of 1/SimScale:
\*   (SimScale * d / 0.3)^2 = SimScale^2 * q / (10 * Grid^2 * 0.09)
DistanceOverScale(a, b) ==
    Sqrt(((10 * SimScale * SimScale) \div (9 * Grid * Grid)) * SquaredDistance(a, b))

\* the similarity without its lower clamp
calculateJointSimilarityUnclamped(a, b) == SimScale - DistanceOverScale(a, b)

calculateJointSimilarity(a, b) == Max(0, SimScale - DistanceOverScale(a, b))

---------------------------------------------------------------------------
(* The comparison loop of calculatePoseSimilarity *)
LoopStart == [totalSimilarity |-> 0, validComparisons |-> 0,
              threw |-> FALSE, compared |-> {}]

\* the loop body testing the visibility of the first pose only
LoopBodyFirstVisibilityOnly(acc, landmarks1, landmarks2, idx) ==
    IF acc.threw THEN acc
    ELSE IF idx >= Len(landmarks1) \/ idx >= Len(landmarks2) THEN acc
    ELSE LET a == At(landmarks1, idx)
             b == At(landmarks2, idx)
         IN  IF ~IsLandmark(a) THEN [acc EXCEPT !.threw = TRUE]
             ELSE IF OrDefault(a.visibility, Grid) < VisibilityThreshold THEN acc
             ELSE IF ~IsLandmark(b) THEN [acc EXCEPT !.threw = TRUE]
             ELSE [acc EXCEPT
                     !.totalSimilarity = @ + calculateJointSimilarity(a, b),
                     !.validComparisons = @ + 1,
                     !.compared = @ \cup {idx}]

\* the loop body skipping a joint also when the nose (index 0) of the first
\* pose has low visibility
LoopBodyNoseGate(acc, landmarks1, landmarks2, idx) ==
    IF acc.threw THEN acc
    ELSE IF idx >= Len(landmarks1) \/ idx >= Len(landmarks2) THEN acc
    ELSE LET a == At(landmarks1, idx)
             b == At(landmarks2, idx)
             nose == At(landmarks1, 0)
         IN  IF ~IsLandmark(a) THEN [acc EXCEPT !.threw = TRUE]
             ELSE IF OrDefault(a.visibility, Grid) < VisibilityThreshold THEN acc
             ELSE IF ~IsLandmark(b) THEN [acc EXCEPT !.threw = TRUE]
             ELSE IF OrDefault(b.visibility, Grid) < VisibilityThreshold THEN acc
             ELSE IF IsLandmark(nose) /\ OrDefault(nose.visibility, Grid) < VisibilityThreshold
             THEN acc
             ELSE [acc EXCEPT
                     !.totalSimilarity = @ + calculateJointSimilarity(a, b),
                     !.validComparisons = @ + 1,
                     !.compared = @ \cup {idx}]

LoopBody(acc, landmarks1, landmarks2, idx) ==
    IF acc.threw THEN acc
    ELSE IF idx >= Len(landmarks1) \/ idx >= Len(landmarks2) THEN acc
    ELSE LET a == At(landmarks1, idx)
             b == At(landmarks2, idx)
         IN  IF ~IsLandmark(a) THEN [acc EXCEPT !.threw = TRUE]
             ELSE IF OrDefault(a.visibility, Grid) < VisibilityThreshold THEN acc
             ELSE IF ~IsLandmark(b) THEN [acc EXCEPT !.threw = TRUE]
             ELSE IF OrDefault(b.visibility, Grid) < VisibilityThreshold THEN acc
             ELSE [acc EXCEPT
                     !.totalSimilarity = @ + calculateJointSimilarity(a, b),
                     !.validComparisons = @ + 1,
                     !.compared = @ \cup {idx}]

RECURSIVE Loop(_, _, _, _)
Loop(acc, landmarks1, landmarks2, k) ==
    IF k > Len(KEY_LANDMARKS) THEN acc
    ELSE Loop(LoopBody(acc, landmarks1, landmarks2, KEY_LANDMARKS[k]),
              landmarks1, landmarks2, k + 1)

\* the average rounded without the conversion to a percentage
RoundFraction(total, count) ==
    (2 * total + count * SimScale) \div (2 * count * SimScale)

\* Math.round(averageSimilarity * 100): nearest integer, halves upwards
RoundPercent(total, count) ==
    (2 * Percent * total + count * SimScale) \div (2 * count * SimScale)

Returned(value, acc) ==
    [kind |-> "return", value |-> value,
     validComparisons |-> acc.validComparisons, compared |-> acc.compared]
Thrown == [kind |-> "TypeError"]
NotCalled == [kind |-> "none"]

calculatePoseSimilarity(p1, p2) ==
    IF p1 = NullPose \/ p2 = NullPose THEN Returned(0, LoopStart)
    ELSE IF ~HasLandmarks(p1) \/ ~HasLandmarks(p2) THEN Returned(0, LoopStart)
    ELSE LET acc == Loop(LoopStart, p1.landmarks, p2.landmarks, 1)
         IN  IF acc.threw THEN Thrown
             ELSE IF acc.validComparisons = 0 THEN Returned(0, acc)
             ELSE Returned(RoundPercent(acc.totalSimilarity, acc.validComparisons), acc)

---------------------------------------------------------------------------
(* Feedback *)
\* the bands with strict lower bounds
getFeedbackMessageStrict(a) ==
    IF a > 90 THEN [message |-> "Perfect", color |-> "text-green-500"]
    ELSE IF a > 75 THEN [message |-> "Great", color |-> "text-blue-500"]
    ELSE IF a > 60 THEN [message |-> "Good", color |-> "text-yellow-500"]
    ELSE IF a > 40 THEN [message |-> "Keep trying", color |-> "text-orange-500"]
    ELSE [message |-> "Try again", color |-> "text-red-500"]

getFeedbackMessage(a) ==
    IF a >= 90 THEN [message |-> "Perfect", color |-> "text-green-500"]
    ELSE IF a >= 75 THEN [message |-> "Great", color |-> "text-blue-500"]
    ELSE IF a >= 60 THEN [message |-> "Good", color |-> "text-yellow-500"]
    ELSE IF a >= 40 THEN [message |-> "Keep trying", color |-> "text-orange-500"]
    ELSE [message |-> "Try again", color |-> "text-red-500"]

\* the threshold taken exclusively
shouldCelebrateStrict(a) == a > 85

shouldCelebrate(a) == a >= 85

---------------------------------------------------------------------------
(* The 2D canvas.  Lengths on the surface are in 1/Grid pixel, so that     *)
(* landmark.x * width is exact; angles are in units of PI/60; globalAlpha  *)
(* is in hundredths.                                                       *)
CanvasWidth == 640
CanvasHeight == 480

Px(n) == n * Grid

\* a CSS colour, and colour + 'CC' (the colour with an alpha suffix)
Color(c) == [color |-> c]
WithAlpha(c, suffix) == [color |-> c.color \o suffix]

LinearGradient(x0, y0, x1, y1, stops) ==
    [gradient |-> "linear", from |-> <<x0, y0>>, to |-> <<x1, y1>>, stops |-> stops]
RadialGradient(x0, y0, r0, x1, y1, r1, stops) ==
    [gradient |-> "radial", from |-> <<x0, y0, r0>>, to |-> <<x1, y1, r1>>, stops |-> stops]

\* the calls a renderer makes on its context
ClearRect(x, y, w, h) == [op |-> "clearRect", rect |-> <<x, y, w, h>>]
SetAttr(attr, value) == [op |-> "set", attr |-> attr, value |-> value]
BeginPath == [op |-> "beginPath"]
MoveTo(x, y) == [op |-> "moveTo", at |-> <<x, y>>]
LineTo(x, y) == [op |-> "lineTo", at |-> <<x, y>>]
Arc(x, y, r, a0, a1) == [op |-> "arc", at |-> <<x, y>>, r |-> r, angles |-> <<a0, a1>>]
Ellipse(x, y, rx, ry, rot, a0, a1) ==
    [op |-> "ellipse", at |-> <<x, y>>, r |-> <<rx, ry>>, rot |-> rot, angles |-> <<a0, a1>>]
ClosePath == [op |-> "closePath"]
Fill == [op |-> "fill"]
Stroke == [op |-> "stroke"]
ThrowTypeError == [op |-> "throw"]

\* Not calls on the context: which element of the figure the code is drawing, and
\* which section of the effect it is in (the comments "Torso", "Arms", ... of the source).
Element(e) == [op |-> "element", element |-> e]
Section(name) == [op |-> "section", section |-> name]
Limb(start, end) == Element([kind |-> "limb", start |-> start, end |-> end])
Joint(index) == Element([kind |-> "joint", index |-> index])
HeadElement == Element([kind |-> "head"])
Hand(wristColor) == Element([kind |-> "hand", color |-> wristColor])
NoElement == [kind |-> "none"]

PathOps == {"moveTo", "lineTo", "arc", "ellipse", "closePath"}

\* a context as getContext('2d') first returns it
FreshContext ==
    [fillStyle |-> Color("#000000"), strokeStyle |-> Color("#000000"),
     lineWidth |-> 1, lineCap |-> "butt", lineJoin |-> "miter",
     shadowColor |-> "rgba(0, 0, 0, 0)", shadowBlur |-> 0,
     globalAlpha |-> 100, path |-> <<>>]

\* the shadow a fill or stroke casts: none unless the blur is positive
EffectiveShadow(ctx) ==
    IF ctx.shadowBlur > 0 THEN <<ctx.shadowColor, ctx.shadowBlur>> ELSE <<>>

Filled(ctx) ==
    [op |-> "fill", path |-> ctx.path, style |-> ctx.fillStyle,
     shadow |-> EffectiveShadow(ctx), alpha |-> ctx.globalAlpha]

Stroked(ctx) ==
    [op |-> "stroke", path |-> ctx.path, style |-> ctx.strokeStyle,
     lineWidth |-> ctx.lineWidth, lineCap |-> ctx.lineCap, lineJoin |-> ctx.lineJoin,
     shadow |-> EffectiveShadow(ctx), alpha |-> ctx.globalAlpha]

\* what a call left on the surface, with the element and section it belongs to
Issued(st, drawn) == [section |-> st.section, element |-> st.element, drawn |-> drawn]

\* one call on the context: st = [ctx, surface, issued, threw, element, section]
Execute(st, c) ==
    IF st.threw THEN st
    ELSE IF c.op = "throw" THEN [st EXCEPT !.threw = TRUE]
    ELSE IF c.op = "element" THEN [st EXCEPT !.element = c.element]
    ELSE IF c.op = "section" THEN [st EXCEPT !.section = c.section, !.element = NoElement]
    ELSE IF c.op = "clearRect" THEN
        [st EXCEPT !.surface = <<>>, !.issued = Append(@, Issued(st, c))]
    ELSE IF c.op = "set" THEN [st EXCEPT !.ctx[c.attr] = c.value]
    ELSE IF c.op = "beginPath" THEN [st EXCEPT !.ctx.path = <<>>]
    ELSE IF c.op \in PathOps THEN [st EXCEPT !.ctx.path = Append(@, c)]
    ELSE IF c.op = "fill" THEN
        [st EXCEPT !.surface = Append(@, Filled(st.ctx)),
                   !.issued = Append(@, Issued(st, Filled(st.ctx)))]
    ELSE [st EXCEPT !.surface = Append(@, Stroked(st.ctx)),
                    !.issued = Append(@, Issued(st, Stroked(st.ctx)))]

\* the calls cmds[lo..hi] in order
RECURSIVE ExecuteRange(_, _, _, _)
ExecuteRange(st, cmds, lo, hi) ==
    IF st.threw \/ lo > hi THEN st
    ELSE IF lo = hi THEN Execute(st, cmds[lo])
    ELSE LET mid == (lo + hi) \div 2
         IN  ExecuteRange(ExecuteRange(st, cmds, lo, mid), cmds, mid + 1, hi)

ExecuteAll(st, cmds) == ExecuteRange(st, cmds, 1, Len(cmds))

\* an effect about to run on a context and a surface
EffectStart(ctx, surface) ==
    [ctx |-> ctx, surface |-> surface, issued |-> <<>>, threw |-> FALSE,
     element |-> NoElement, section |-> "none"]

\* landmarks[i] is truthy: inside the array and not null
Present(lms, i) == i < Len(lms) /\ IsLandmark(At(lms, i))

\* landmark.x * w and landmark.y * h
ScreenX(l) == l.x * CanvasWidth
ScreenY(l) == l.y * CanvasHeight

TwoPi == 120

---------------------------------------------------------------------------
(* AvatarRenderer (src/src/components/AvatarRenderer.tsx): the calls one   *)
(* run of its effect makes on the context, in program order.               *)

RECURSIVE Flatten(_)
Flatten(seqs) == IF seqs = <<>> THEN <<>> ELSE Head(seqs) \o Flatten(Tail(seqs))

\* [f(xs[1]), f(xs[2]), ...] concatenated
ForEach(xs, f(_)) == Flatten([k \in 1..Len(xs) |-> f(xs[k])])

HasField(r, name) == name \in DOMAIN r

\* n * pct / 100, for headSize * 0.7 and the like
Times(n, pct) == (n * pct) \div 100

avatarConfig ==
    [monkey |-> [primary |-> Color("#8B4513"), secondary |-> Color("#DEB887"),
                 accent |-> Color("#FF69B4"), skin |-> Color("#F4D0A8")],
     human  |-> [primary |-> Color("#FFD1A4"), secondary |-> Color("#FF9A76"),
                 accent |-> Color("#4A90E2"), skin |-> Color("#FFE4C4")],
     cat    |-> [primary |-> Color("#FFA500"), secondary |-> Color("#FFD700"),
                 accent |-> Color("#228B22"), skin |-> Color("#FFE4B5")],
     dog    |-> [primary |-> Color("#D2691E"), secondary |-> Color("#F4A460"),
                 accent |-> Color("#FF6347"), skin |-> Color("#FFDAB9")],
     bird   |-> [primary |-> Color("#00CED1"), secondary |-> Color("#FFD700"),
                 accent |-> Color("#FF1493"), skin |-> Color("#87CEEB")]]

\* avatarConfig[avatarType] || avatarConfig.monkey
Palette(avatarType) ==
    IF avatarType \in DOMAIN avatarConfig THEN avatarConfig[avatarType]
    ELSE avatarConfig.monkey

\* drawLimb guarding its start point only: landmarks[end].x of no landmark raises
drawLimbStartOnly(landmarks, colors, start, end, thickness, color) ==
    IF Present(landmarks, start) THEN
        IF Present(landmarks, end) THEN
            <<Limb(start, end), BeginPath,
              MoveTo(ScreenX(At(landmarks, start)), ScreenY(At(landmarks, start))),
              LineTo(ScreenX(At(landmarks, end)), ScreenY(At(landmarks, end))),
              SetAttr("strokeStyle", color), SetAttr("lineWidth", thickness),
              SetAttr("lineCap", "round"), Stroke>>
        ELSE <<ThrowTypeError>>
    ELSE <<>>

drawLimb(landmarks, colors, start, end, thickness, color) ==
    IF Present(landmarks, start) /\ Present(landmarks, end) THEN
        LET startX == ScreenX(At(landmarks, start))
            startY == ScreenY(At(landmarks, start))
            endX == ScreenX(At(landmarks, end))
            endY == ScreenY(At(landmarks, end))
        IN  <<Limb(start, end),
              BeginPath,
              MoveTo(startX, startY),
              LineTo(endX, endY),
              SetAttr("strokeStyle",
                      LinearGradient(startX, startY, endX, endY, <<color, colors.secondary>>)),
              SetAttr("lineWidth", thickness),
              SetAttr("lineCap", "round"),
              SetAttr("lineJoin", "round"),
              SetAttr("shadowColor", "rgba(0, 0, 0, 0.2)"),
              SetAttr("shadowBlur", 5),
              Stroke,
              SetAttr("shadowBlur", 0)>>
    ELSE <<>>

\* drawJoint leaving out a landmark of visibility below 0.5
drawJointVisibleOnly(landmarks, index, radius, color) ==
    IF Present(landmarks, index)
           /\ OrDefault(At(landmarks, IF Present(landmarks, index) THEN index ELSE 0).visibility,
                        Grid) >= VisibilityThreshold
    THEN
        LET x == ScreenX(At(landmarks, index))
            y == ScreenY(At(landmarks, index))
        IN  <<Joint(index),
              BeginPath,
              Arc(x, y, Px(radius + 3), 0, TwoPi),
              SetAttr("fillStyle", WithAlpha(color, "40")),
              Fill,
              BeginPath,
              Arc(x, y, Px(radius), 0, TwoPi),
              SetAttr("fillStyle", color),
              SetAttr("shadowColor", color.color),
              SetAttr("shadowBlur", 10),
              Fill,
              SetAttr("shadowBlur", 0)>>
    ELSE <<>>

drawJoint(landmarks, index, radius, color) ==
    IF Present(landmarks, index) THEN
        LET x == ScreenX(At(landmarks, index))
            y == ScreenY(At(landmarks, index))
        IN  <<Joint(index),
              BeginPath,
              Arc(x, y, Px(radius + 3), 0, TwoPi),
              SetAttr("fillStyle", WithAlpha(color, "40")),
              Fill,
              BeginPath,
              Arc(x, y, Px(radius), 0, TwoPi),
              SetAttr("fillStyle", color),
              SetAttr("shadowColor", color.color),
              SetAttr("shadowBlur", 10),
              Fill,
              SetAttr("shadowBlur", 0)>>
    ELSE <<>>

fingers ==
    <<<<0, 1, 2, 3, 4>>, <<0, 5, 6, 7, 8>>, <<0, 9, 10, 11, 12>>,
      <<0, 13, 14, 15, 16>>, <<0, 17, 18, 19, 20>>>>

\* one segment of a finger: hand[finger[i]] to hand[finger[i + 1]] (i from 1 here)
drawFingerSegment(hand, handColor, fingerIndex, i) ==
    LET from == fingers[fingerIndex][i]
        to == fingers[fingerIndex][i + 1]
    IN  IF Present(hand, from) /\ Present(hand, to) THEN
            <<BeginPath,
              MoveTo(ScreenX(At(hand, from)), ScreenY(At(hand, from))),
              LineTo(ScreenX(At(hand, to)), ScreenY(At(hand, to))),
              SetAttr("strokeStyle", handColor),
              SetAttr("lineWidth", IF fingerIndex = 1 THEN 8 ELSE 6),
              SetAttr("lineCap", "round"),
              Stroke>>
        ELSE <<>>

\* the fingertip marker drawn before the finger's segments
drawFingerTipFirst(hand, handColor, colors, fingerIndex) ==
    LET tipIndex == fingers[fingerIndex][Len(fingers[fingerIndex])]
        segment(i) == drawFingerSegment(hand, handColor, fingerIndex, i)
    IN  (IF Present(hand, tipIndex) THEN
             <<BeginPath,
               Arc(ScreenX(At(hand, tipIndex)), ScreenY(At(hand, tipIndex)),
                   Px(IF fingerIndex = 1 THEN 6 ELSE 5), 0, TwoPi),
               SetAttr("fillStyle", colors.accent),
               Fill>>
         ELSE <<>>)
            \o ForEach(<<1, 2, 3, 4>>, segment)

drawFinger(hand, handColor, colors, fingerIndex) ==
    LET tipIndex == fingers[fingerIndex][Len(fingers[fingerIndex])]
        segment(i) == drawFingerSegment(hand, handColor, fingerIndex, i)
    IN  ForEach(<<1, 2, 3, 4>>, segment)
            \o (IF Present(hand, tipIndex) THEN
                    <<BeginPath,
                      Arc(ScreenX(At(hand, tipIndex)), ScreenY(At(hand, tipIndex)),
                          Px(IF fingerIndex = 1 THEN 6 ELSE 5), 0, TwoPi),
                      SetAttr("fillStyle", colors.accent),
                      Fill>>
                ELSE <<>>)

drawHand(handLandmarks, handColor, colors) ==
    IF ~HasField(handLandmarks, "landmarks") THEN <<>>
    ELSE
        LET hand == handLandmarks.landmarks
            palmCorner(i) ==
                IF Present(hand, i)
                THEN <<LineTo(ScreenX(At(hand, i)), ScreenY(At(hand, i)))>> ELSE <<>>
            finger(fingerIndex) == drawFinger(hand, handColor, colors, fingerIndex)
            knuckle(i) ==
                IF Present(hand, i) THEN
                    <<BeginPath,
                      Arc(ScreenX(At(hand, i)), ScreenY(At(hand, i)), Px(4), 0, TwoPi),
                      SetAttr("fillStyle", colors.accent),
                      Fill>>
                ELSE <<>>
        IN  <<Hand(handColor), BeginPath>>
                \o (IF Present(hand, 0)
                    THEN <<MoveTo(ScreenX(At(hand, 0)), ScreenY(At(hand, 0)))>>
                    ELSE <<ThrowTypeError>>)      \* hand[0].x of no landmark
                \o ForEach(<<5, 9, 13, 17>>, palmCorner)
                \o <<ClosePath, SetAttr("fillStyle", WithAlpha(handColor, "CC")), Fill>>
                \o ForEach(<<1, 2, 3, 4, 5>>, finger)
                \o ForEach(<<1, 5, 9, 13, 17>>, knuckle)

headSize == 45

\* a filled circle: beginPath, arc, fillStyle, fill
FillCircle(x, y, r, style) ==
    <<BeginPath, Arc(x, y, r, 0, TwoPi), SetAttr("fillStyle", style), Fill>>

\* a filled triangle: beginPath, moveTo, lineTo, lineTo, closePath, fillStyle, fill
FillTriangle(x0, y0, x1, y1, x2, y2, style) ==
    <<BeginPath, MoveTo(x0, y0), LineTo(x1, y1), LineTo(x2, y2), ClosePath,
      SetAttr("fillStyle", style), Fill>>

FillEllipse(x, y, rx, ry, rot, style) ==
    <<BeginPath, Ellipse(x, y, rx, ry, rot, 0, TwoPi), SetAttr("fillStyle", style), Fill>>

drawMonkeyHead(headX, headY, colors) ==
    LET hs == Px(headSize)
        gradient == RadialGradient(headX, headY, 0, headX, headY, hs,
                                   <<colors.primary, WithAlpha(colors.primary, "CC")>>)
        ear(side) == FillCircle(headX + side * hs, headY, Times(hs, 40), colors.primary)
        eye(offsetX) ==
            FillCircle(headX + Px(offsetX), headY - Px(5), Px(8), Color("#FFF"))
                \o FillCircle(headX + Px(offsetX), headY - Px(5), Px(5), Color("#000"))
                \o FillCircle(headX + Px(offsetX) - Px(2), headY - Px(7), Px(2), Color("#FFF"))
    IN  FillCircle(headX, headY, hs, gradient)
            \o FillCircle(headX, headY + Px(8), Times(hs, 70), colors.skin)
            \o <<SetAttr("shadowColor", "rgba(0, 0, 0, 0.3)"), SetAttr("shadowBlur", 5)>>
            \o ForEach(<<-1, 1>>, ear)
            \o <<SetAttr("shadowBlur", 0)>>
            \o ForEach(<<-15, 15>>, eye)
            \o FillCircle(headX, headY + Px(8), Px(5), Color("#000"))
            \o <<BeginPath,
                 Arc(headX, headY + Px(10), Px(18), 12, 48),     \* 0.2 pi to 0.8 pi
                 SetAttr("strokeStyle", Color("#000")),
                 SetAttr("lineWidth", 3),
                 Stroke>>

drawCatHead(headX, headY, colors) ==
    LET hs == Px(headSize)
        gradient == RadialGradient(headX, headY, 0, headX, headY, hs,
                                   <<colors.primary, WithAlpha(colors.primary, "DD")>>)
        ear(side) ==
            FillTriangle(headX + side * Times(hs, 70), headY - Times(hs, 50),
                         headX + side * Times(hs, 30), headY - hs,
                         headX + side * Times(hs, 50), headY - Times(hs, 30),
                         colors.primary)
                \o FillTriangle(headX + side * Times(hs, 60), headY - Times(hs, 45),
                                headX + side * Times(hs, 40), headY - Times(hs, 85),
                                headX + side * Times(hs, 50), headY - Times(hs, 40),
                                WithAlpha(colors.accent, "80"))
        eye(offsetX) ==
            FillEllipse(headX + Px(offsetX), headY - Px(5), Px(10), Px(14), 0, colors.accent)
                \o FillEllipse(headX + Px(offsetX), headY - Px(5), Px(2), Px(10), 0,
                               Color("#000"))
        whisker(side, i) ==
            <<BeginPath,
              MoveTo(headX + side * Px(15), headY + Px(i * 8 - 5)),
              LineTo(headX + side * Px(50), headY + Px(i * 10 - 10)),
              Stroke>>
        whiskers(side) ==
            whisker(side, 0) \o whisker(side, 1) \o whisker(side, 2)
    IN  FillCircle(headX, headY, hs, gradient)
            \o <<SetAttr("shadowColor", "rgba(0, 0, 0, 0.3)"), SetAttr("shadowBlur", 5)>>
            \o ForEach(<<-1, 1>>, ear)
            \o <<SetAttr("shadowBlur", 0)>>
            \o ForEach(<<-15, 15>>, eye)
            \o <<SetAttr("strokeStyle", Color("#000")), SetAttr("lineWidth", 2)>>
            \o ForEach(<<-1, 1>>, whiskers)
            \o FillTriangle(headX, headY + Px(5), headX - Px(5), headY + Px(12),
                            headX + Px(5), headY + Px(12), colors.accent)

drawDogHead(headX, headY, colors) ==
    LET hs == Px(headSize)
        gradient == RadialGradient(headX, headY, 0, headX, headY, hs,
                                   <<colors.primary, WithAlpha(colors.primary, "DD")>>)
        ear(side) ==
            FillEllipse(headX + side * Times(hs, 80), headY + Times(hs, 30),
                        Times(hs, 40), Times(hs, 60), side * 10,    \* side * pi / 6
                        colors.secondary)
        eye(offsetX) ==
            FillCircle(headX + Px(offsetX), headY - Px(8), Px(9), Color("#FFF"))
                \o FillCircle(headX + Px(offsetX), headY - Px(8), Px(6), Color("#000"))
                \o FillCircle(headX + Px(offsetX) - Px(2), headY - Px(10), Px(2), Color("#FFF"))
    IN  FillCircle(headX, headY, hs, gradient)
            \o <<SetAttr("shadowColor", "rgba(0, 0, 0, 0.3)"), SetAttr("shadowBlur", 8)>>
            \o ForEach(<<-1, 1>>, ear)
            \o <<SetAttr("shadowBlur", 0)>>
            \o ForEach(<<-15, 15>>, eye)
            \o FillEllipse(headX, headY + Px(15), Px(20), Px(15), 0, colors.skin)
            \o FillCircle(headX, headY + Px(12), Px(7), Color("#000"))
            \o FillEllipse(headX, headY + Px(25), Px(8), Px(12), 0, Color("#FF69B4"))

drawBirdHead(headX, headY, colors) ==
    LET hs == Px(headSize)
        gradient == RadialGradient(headX, headY, 0, headX, headY, Times(hs, 80),
                                   <<colors.primary, WithAlpha(colors.primary, "DD")>>)
        crest(i) ==
            <<BeginPath,
              MoveTo(headX - Px(20) + Px(i * 10), headY - Times(hs, 80)),
              LineTo(headX - Px(15) + Px(i * 10), headY - Times(hs, 130)),
              LineTo(headX - Px(10) + Px(i * 10), headY - Times(hs, 80)),
              SetAttr("strokeStyle", colors.accent),
              SetAttr("lineWidth", 4),
              SetAttr("lineCap", "round"),
              Stroke>>
    IN  FillCircle(headX, headY, Times(hs, 80), gradient)
            \o <<BeginPath,
                 MoveTo(headX, headY + Px(5)),
                 LineTo(headX + Px(30), headY - Px(2)),
                 LineTo(headX + Px(30), headY + Px(2)),
                 LineTo(headX, headY + Px(15)),
                 ClosePath,
                 SetAttr("fillStyle", colors.secondary),
                 SetAttr("shadowColor", "rgba(0, 0, 0, 0.2)"),
                 SetAttr("shadowBlur", 5),
                 Fill,
                 SetAttr("shadowBlur", 0)>>
            \o FillCircle(headX - Px(10), headY - Px(8), Px(10), Color("#FFF"))
            \o FillCircle(headX - Px(10), headY - Px(8), Px(6), Color("#000"))
            \o FillCircle(headX - Px(12), headY - Px(10), Px(2), Color("#FFF"))
            \o ForEach(<<0, 1, 2, 3, 4>>, crest)

drawHumanHead(headX, headY, colors) ==
    LET hs == Px(headSize)
        gradient == RadialGradient(headX, headY, 0, headX, headY, hs,
                                   <<colors.primary, WithAlpha(colors.primary, "DD")>>)
        eye(offsetX) ==
            FillCircle(headX + Px(offsetX), headY - Px(5), Px(7), Color("#FFF"))
                \o FillCircle(headX + Px(offsetX), headY - Px(5), Px(5), colors.accent)
                \o FillCircle(headX + Px(offsetX), headY - Px(5), Px(3), Color("#000"))
                \o FillCircle(headX + Px(offsetX) - Px(2), headY - Px(7), Px(2), Color("#FFF"))
    IN  FillCircle(headX, headY, hs, gradient)
            \o <<BeginPath,
                 Arc(headX, headY - Px(10), Times(hs, 110), 60, TwoPi),   \* pi to 2 pi
                 SetAttr("fillStyle", colors.accent),
                 Fill>>
            \o ForEach(<<-15, 15>>, eye)
            \o <<BeginPath,
                 Arc(headX, headY + Px(8), Px(18), 9, 51),       \* 0.15 pi to 0.85 pi
                 SetAttr("strokeStyle", Color("#000")),
                 SetAttr("lineWidth", 3),
                 SetAttr("lineCap", "round"),
                 Stroke>>

\* the head, chosen by avatarType === 'monkey' / 'cat' / 'dog' / 'bird', else human
drawHead(landmarks, avatarType, colors) ==
    IF Present(landmarks, 0) THEN
        LET headX == ScreenX(At(landmarks, 0))
            headY == ScreenY(At(landmarks, 0))
        IN  <<HeadElement>>
                \o CASE avatarType = "monkey" -> drawMonkeyHead(headX, headY, colors)
                     [] avatarType = "cat" -> drawCatHead(headX, headY, colors)
                     [] avatarType = "dog" -> drawDogHead(headX, headY, colors)
                     [] avatarType = "bird" -> drawBirdHead(headX, headY, colors)
                     [] OTHER -> drawHumanHead(headX, headY, colors)
    ELSE <<>>

jointIndices == <<11, 12, 13, 14, 23, 24, 25, 26, 27, 28>>

\* if (pose.leftHand) drawHand(...) else if (landmarks[wrist]) drawJoint(wrist, 14, accent)
drawHandOrWrist(pose, field, wrist, colors) ==
    IF HasField(pose, field) THEN drawHand(pose[field], colors.skin, colors)
    ELSE drawJoint(pose.landmarks, wrist, 14, colors.accent)

drawTorso(landmarks, colors) ==
    drawLimb(landmarks, colors, 11, 12, 24, colors.primary)
        \o drawLimb(landmarks, colors, 11, 23, 20, colors.primary)
        \o drawLimb(landmarks, colors, 12, 24, 20, colors.primary)
        \o drawLimb(landmarks, colors, 23, 24, 22, colors.primary)

drawArms(landmarks, colors) ==
    drawLimb(landmarks, colors, 11, 13, 16, colors.secondary)
        \o drawLimb(landmarks, colors, 13, 15, 14, colors.secondary)
        \o drawLimb(landmarks, colors, 12, 14, 16, colors.secondary)
        \o drawLimb(landmarks, colors, 14, 16, 14, colors.secondary)

drawLegs(landmarks, colors) ==
    drawLimb(landmarks, colors, 23, 25, 18, colors.secondary)
        \o drawLimb(landmarks, colors, 25, 27, 16, colors.secondary)
        \o drawLimb(landmarks, colors, 24, 26, 18, colors.secondary)
        \o drawLimb(landmarks, colors, 26, 28, 16, colors.secondary)

drawJoints(landmarks, colors) ==
    LET joint(index) == drawJoint(landmarks, index, 10, colors.accent)
    IN  ForEach(jointIndices, joint)

drawFeet(landmarks, colors) ==
    drawJoint(landmarks, 27, 12, colors.accent) \o drawJoint(landmarks, 28, 12, colors.accent)

\* the effect with the joint markers drawn before the legs and the head
AvatarRendererJointsEarly(pose, avatarType) ==
    <<ClearRect(0, 0, Px(CanvasWidth), Px(CanvasHeight))>>
        \o (IF pose = NullPose \/ ~HasField(pose, "landmarks") THEN <<>>
            ELSE LET landmarks == pose.landmarks
                     colors == Palette(avatarType)
                 IN  <<Section("torso")>> \o drawTorso(landmarks, colors)
                         \o <<Section("arms")>> \o drawArms(landmarks, colors)
                         \o <<Section("joints")>> \o drawJoints(landmarks, colors)
                         \o <<Section("legs")>> \o drawLegs(landmarks, colors)
                         \o <<Section("head")>> \o drawHead(landmarks, avatarType, colors)
                         \o <<Section("leftHand")>>
                         \o drawHandOrWrist(pose, "leftHand", 15, colors)
                         \o <<Section("rightHand")>>
                         \o drawHandOrWrist(pose, "rightHand", 16, colors)
                         \o <<Section("feet")>> \o drawFeet(landmarks, colors))

\* The effect of AvatarRenderer for props (pose, avatarType), canvas and context at hand.
AvatarRenderer(pose, avatarType) ==
    <<ClearRect(0, 0, Px(CanvasWidth), Px(CanvasHeight))>>
        \o (IF pose = NullPose \/ ~HasField(pose, "landmarks") THEN <<>>
            ELSE LET landmarks == pose.landmarks
                     colors == Palette(avatarType)
                 IN  <<Section("torso")>> \o drawTorso(landmarks, colors)
                         \o <<Section("arms")>> \o drawArms(landmarks, colors)
                         \o <<Section("legs")>> \o drawLegs(landmarks, colors)
                         \o <<Section("head")>> \o drawHead(landmarks, avatarType, colors)
                         \o <<Section("joints")>> \o drawJoints(landmarks, colors)
                         \o <<Section("leftHand")>>
                         \o drawHandOrWrist(pose, "leftHand", 15, colors)
                         \o <<Section("rightHand")>>
                         \o drawHandOrWrist(pose, "rightHand", 16, colors)
                         \o <<Section("feet")>> \o drawFeet(landmarks, colors))

---------------------------------------------------------------------------
(* The minimal AvatarRenderer (src/unnamed/part_000): solid colours, no    *)
(* hands.                                                                  *)

avatarConfigMinimal ==
    [monkey |-> [primary |-> Color("#8B4513"), secondary |-> Color("#DEB887"),
                 accent |-> Color("#FF69B4")],
     human  |-> [primary |-> Color("#FFD1A4"), secondary |-> Color("#FF9A76"),
                 accent |-> Color("#4A90E2")],
     cat    |-> [primary |-> Color("#FFA500"), secondary |-> Color("#FFD700"),
                 accent |-> Color("#228B22")],
     dog    |-> [primary |-> Color("#D2691E"), secondary |-> Color("#F4A460"),
                 accent |-> Color("#FF6347")],
     bird   |-> [primary |-> Color("#00CED1"), secondary |-> Color("#FFD700"),
                 accent |-> Color("#FF1493")]]

PaletteMinimal(avatarType) ==
    IF avatarType \in DOMAIN avatarConfigMinimal THEN avatarConfigMinimal[avatarType]
    ELSE avatarConfigMinimal.monkey

drawLimbMinimal(landmarks, start, end, thickness, color) ==
    IF Present(landmarks, start) /\ Present(landmarks, end) THEN
        <<Limb(start, end),
          BeginPath,
          MoveTo(ScreenX(At(landmarks, start)), ScreenY(At(landmarks, start))),
          LineTo(ScreenX(At(landmarks, end)), ScreenY(At(landmarks, end))),
          SetAttr("strokeStyle", color),
          SetAttr("lineWidth", thickness),
          SetAttr("lineCap", "round"),
          Stroke>>
    ELSE <<>>

drawJointMinimal(landmarks, index, radius, color) ==
    IF Present(landmarks, index) THEN
        <<Joint(index)>>
            \o FillCircle(ScreenX(At(landmarks, index)), ScreenY(At(landmarks, index)),
                          Px(radius), color)
    ELSE <<>>

headSizeMinimal == 40

\* beginPath, arc, fill: a circle in the fill style already set
FillCircleAgain(x, y, r) == <<BeginPath, Arc(x, y, r, 0, TwoPi), Fill>>

drawHeadMinimal(landmarks, avatarType, colors) ==
    IF ~Present(landmarks, 0) THEN <<>>
    ELSE
    LET headX == ScreenX(At(landmarks, 0))
        headY == ScreenY(At(landmarks, 0))
        hs == Px(headSizeMinimal)
    IN  <<HeadElement>> \o
        CASE avatarType = "monkey" ->
            FillCircle(headX, headY, hs, colors.primary)
                \o FillCircle(headX, headY + Px(5), Times(hs, 70), colors.secondary)
                \o FillCircle(headX - hs, headY, Times(hs, 40), colors.primary)
                \o FillCircleAgain(headX + hs, headY, Times(hs, 40))
                \o FillCircle(headX - Px(12), headY - Px(5), Px(6), Color("#000"))
                \o FillCircleAgain(headX + Px(12), headY - Px(5), Px(6))
          [] avatarType = "cat" ->
            FillCircle(headX, headY, hs, colors.primary)
                \o <<BeginPath,
                     MoveTo(headX - Times(hs, 70), headY - Times(hs, 50)),
                     LineTo(headX - Times(hs, 30), headY - hs),
                     LineTo(headX - Times(hs, 50), headY - Times(hs, 30)),
                     ClosePath, Fill,
                     BeginPath,
                     MoveTo(headX + Times(hs, 70), headY - Times(hs, 50)),
                     LineTo(headX + Times(hs, 30), headY - hs),
                     LineTo(headX + Times(hs, 50), headY - Times(hs, 30)),
                     ClosePath, Fill>>
                \o FillEllipse(headX - Px(12), headY - Px(5), Px(8), Px(12), 0, colors.accent)
                \o <<BeginPath,
                     Ellipse(headX + Px(12), headY - Px(5), Px(8), Px(12), 0, 0, TwoPi),
                     Fill>>
          [] avatarType = "dog" ->
            FillCircle(headX, headY, hs, colors.primary)
                \o FillEllipse(headX - Times(hs, 80), headY + Times(hs, 30),
                               Times(hs, 40), Times(hs, 60), 10, colors.secondary)
                \o <<BeginPath,
                     Ellipse(headX + Times(hs, 80), headY + Times(hs, 30),
                             Times(hs, 40), Times(hs, 60), -10, 0, TwoPi),
                     Fill>>
                \o FillCircle(headX - Px(12), headY - Px(5), Px(7), Color("#000"))
                \o FillCircleAgain(headX + Px(12), headY - Px(5), Px(7))
                \o FillCircleAgain(headX, headY + Px(10), Px(6))
          [] avatarType = "bird" ->
            FillCircle(headX, headY, Times(hs, 80), colors.primary)
                \o FillTriangle(headX, headY + Px(5), headX + Px(25), headY,
                                headX, headY + Px(15), colors.secondary)
                \o FillCircle(headX - Px(8), headY - Px(8), Px(8), Color("#FFF"))
                \o FillCircle(headX - Px(8), headY - Px(8), Px(4), Color("#000"))
                \o <<BeginPath,
                     MoveTo(headX - Px(10), headY - Times(hs, 80)),
                     LineTo(headX, headY - Times(hs, 120)),
                     LineTo(headX + Px(10), headY - Times(hs, 80)),
                     SetAttr("strokeStyle", colors.accent),
                     SetAttr("lineWidth", 4),
                     Stroke>>
          [] OTHER ->
            FillCircle(headX, headY, hs, colors.primary)
                \o <<BeginPath,
                     Arc(headX, headY - Px(10), Times(hs, 110), 60, TwoPi),
                     SetAttr("fillStyle", colors.accent),
                     Fill>>
                \o FillCircle(headX - Px(12), headY - Px(5), Px(5), Color("#000"))
                \o FillCircleAgain(headX + Px(12), headY - Px(5), Px(5))
                \o <<BeginPath,
                     Arc(headX, headY + Px(5), Px(15), 0, 60),
                     SetAttr("strokeStyle", Color("#000")),
                     SetAttr("lineWidth", 2),
                     Stroke>>

jointIndicesMinimal == <<11, 12, 13, 14, 15, 16, 23, 24, 25, 26, 27, 28>>

drawTorsoMinimal(landmarks, colors) ==
    drawLimbMinimal(landmarks, 11, 12, 20, colors.primary)
        \o drawLimbMinimal(landmarks, 11, 23, 16, colors.primary)
        \o drawLimbMinimal(landmarks, 12, 24, 16, colors.primary)
        \o drawLimbMinimal(landmarks, 23, 24, 18, colors.primary)

drawArmsMinimal(landmarks, colors) ==
    drawLimbMinimal(landmarks, 11, 13, 14, colors.secondary)
        \o drawLimbMinimal(landmarks, 13, 15, 12, colors.secondary)
        \o drawLimbMinimal(landmarks, 12, 14, 14, colors.secondary)
        \o drawLimbMinimal(landmarks, 14, 16, 12, colors.secondary)

drawLegsMinimal(landmarks, colors) ==
    drawLimbMinimal(landmarks, 23, 25, 16, colors.secondary)
        \o drawLimbMinimal(landmarks, 25, 27, 14, colors.secondary)
        \o drawLimbMinimal(landmarks, 24, 26, 16, colors.secondary)
        \o drawLimbMinimal(landmarks, 26, 28, 14, colors.secondary)

drawJointsMinimal(landmarks, colors) ==
    LET joint(index) == drawJointMinimal(landmarks, index, 8, colors.accent)
    IN  ForEach(jointIndicesMinimal, joint)

drawHandsAndFeetMinimal(landmarks, colors) ==
    drawJointMinimal(landmarks, 15, 12, colors.accent)
        \o drawJointMinimal(landmarks, 16, 12, colors.accent)
        \o drawJointMinimal(landmarks, 27, 10, colors.accent)
        \o drawJointMinimal(landmarks, 28, 10, colors.accent)

AvatarRendererMinimal(pose, avatarType) ==
    <<ClearRect(0, 0, Px(CanvasWidth), Px(CanvasHeight))>>
        \o (IF pose = NullPose \/ ~HasField(pose, "landmarks") THEN <<>>
            ELSE LET landmarks == pose.landmarks
                     colors == PaletteMinimal(avatarType)
                 IN  <<Section("torso")>> \o drawTorsoMinimal(landmarks, colors)
                         \o <<Section("arms")>> \o drawArmsMinimal(landmarks, colors)
                         \o <<Section("legs")>> \o drawLegsMinimal(landmarks, colors)
                         \o <<Section("head")>>
                         \o drawHeadMinimal(landmarks, avatarType, colors)
                         \o <<Section("joints")>> \o drawJointsMinimal(landmarks, colors)
                         \o <<Section("handsAndFeet")>>
                         \o drawHandsAndFeetMinimal(landmarks, colors))

---------------------------------------------------------------------------
(* ReferenceAvatarRenderer (src/src/components/ReferenceAvatarRenderer.tsx) *)

primaryColor == Color("#8b5cf6")
secondaryColor == Color("#6366f1")
accentColor == Color("#ec4899")

drawLimbReference(landmarks, start, end, color, width) ==
    IF start >= Len(landmarks) \/ end >= Len(landmarks) THEN <<>>
    ELSE IF ~IsLandmark(At(landmarks, start)) \/ ~IsLandmark(At(landmarks, end)) THEN <<>>
    ELSE <<Limb(start, end),
           BeginPath,
           MoveTo(ScreenX(At(landmarks, start)), ScreenY(At(landmarks, start))),
           LineTo(ScreenX(At(landmarks, end)), ScreenY(At(landmarks, end))),
           SetAttr("strokeStyle", color),
           SetAttr("lineWidth", width),
           SetAttr("lineCap", "round"),
           Stroke>>

drawJointReference(landmarks, index, color, radius) ==
    IF index >= Len(landmarks) THEN <<>>
    ELSE IF ~IsLandmark(At(landmarks, index)) THEN <<>>
    ELSE <<Joint(index),
           BeginPath,
           Arc(ScreenX(At(landmarks, index)), ScreenY(At(landmarks, index)),
               Px(radius), 0, TwoPi),
           SetAttr("fillStyle", color),
           Fill,
           SetAttr("strokeStyle", Color("#fff")),
           SetAttr("lineWidth", 2),
           Stroke>>

jointIndicesReference == <<11, 12, 13, 14, 15, 16, 23, 24, 25, 26, 27, 28>>

drawTorsoReference(landmarks) ==
    drawLimbReference(landmarks, 11, 12, primaryColor, 10)
        \o drawLimbReference(landmarks, 11, 23, primaryColor, 10)
        \o drawLimbReference(landmarks, 12, 24, primaryColor, 10)
        \o drawLimbReference(landmarks, 23, 24, primaryColor, 10)

drawArmsReference(landmarks) ==
    drawLimbReference(landmarks, 11, 13, secondaryColor, 8)
        \o drawLimbReference(landmarks, 13, 15, secondaryColor, 8)
        \o drawLimbReference(landmarks, 12, 14, secondaryColor, 8)
        \o drawLimbReference(landmarks, 14, 16, secondaryColor, 8)

drawLegsReference(landmarks) ==
    drawLimbReference(landmarks, 23, 25, accentColor, 10)
        \o drawLimbReference(landmarks, 25, 27, accentColor, 10)
        \o drawLimbReference(landmarks, 24, 26, accentColor, 10)
        \o drawLimbReference(landmarks, 26, 28, accentColor, 10)

drawJointsReference(landmarks) ==
    LET joint(i) == drawJointReference(landmarks, i, Color("#fff"), 8)
    IN  ForEach(jointIndicesReference, joint)

ReferenceAvatarRenderer(pose, avatarType) ==
    IF pose = NullPose THEN <<>>                      \* if (!canvas || !pose) return
    ELSE <<ClearRect(0, 0, Px(CanvasWidth), Px(CanvasHeight))>>
        \o (IF ~HasField(pose, "landmarks") \/ Len(pose.landmarks) = 0 THEN <<>>
            ELSE LET landmarks == pose.landmarks
                 IN  <<SetAttr("globalAlpha", 60)>>
                         \o <<Section("torso")>> \o drawTorsoReference(landmarks)
                         \o <<Section("arms")>> \o drawArmsReference(landmarks)
                         \o <<Section("legs")>> \o drawLegsReference(landmarks)
                         \o <<Section("joints")>> \o drawJointsReference(landmarks)
                         \o <<SetAttr("globalAlpha", 100)>>)

---------------------------------------------------------------------------
(* The reference pose catalog (poseComparison.ts) *)

\* landmarks with landmarks[idx] = l
Assign(lms, idx, l) == [lms EXCEPT ![idx + 1] = l]

createTPose ==
    LET filled == [i \in 1..NumLandmarks |-> Landmark(50, 50, <<0>>, <<100>>)]
        at(x, y) == Landmark(x, y, <<0>>, <<100>>)
        shoulders == Assign(Assign(filled, 11, at(40, 35)), 12, at(60, 35))
        elbows == Assign(Assign(shoulders, 13, at(25, 35)), 14, at(75, 35))
        wrists == Assign(Assign(elbows, 15, at(10, 35)), 16, at(90, 35))
        hips == Assign(Assign(wrists, 23, at(45, 55)), 24, at(55, 55))
        knees == Assign(Assign(hips, 25, at(45, 75)), 26, at(55, 75))
    IN  Assign(Assign(knees, 27, at(45, 95)), 28, at(55, 95))

createVictoryPose ==
    LET at(x, y) == Landmark(x, y, <<0>>, <<100>>)
        elbows == Assign(Assign(createTPose, 13, at(35, 20)), 14, at(65, 20))
    IN  Assign(Assign(elbows, 15, at(30, 10)), 16, at(70, 10))

\* a Warrior whose lowered arm is only half lowered
createWarriorPoseHalfLowered ==
    LET at(x, y) == Landmark(x, y, <<0>>, <<100>>)
        elbows == Assign(Assign(createTPose, 13, at(35, 20)), 14, at(65, 30))
    IN  Assign(Assign(elbows, 15, at(30, 10)), 16, at(70, 25))

createWarriorPose ==
    LET at(x, y) == Landmark(x, y, <<0>>, <<100>>)
        elbows == Assign(Assign(createTPose, 13, at(35, 20)), 14, at(65, 50))
    IN  Assign(Assign(elbows, 15, at(30, 10)), 16, at(70, 65))

REFERENCE_POSES ==
    <<[id |-> "tpose", landmarks |-> createTPose],
      [id |-> "victory", landmarks |-> createVictoryPose],
      [id |-> "warrior", landmarks |-> createWarriorPose]>>

---------------------------------------------------------------------------
(* Bounds of the checked inputs *)
MaxShift == 3        \* left-side x offsets of 0, 0.15, .., 0.15 * MaxShift
MaxDelta == 3        \* per-axis offsets of 0, 0.1, .., 0.1 * MaxDelta of a joint

Centre == 50
Visibilities == {Absent, <<0>>, <<40>>, <<50>>, <<100>>}
Lengths == {0, 12, 14, NumLandmarks}

\* landmarks a pose may hold at its odd (left side) indices
LeftLandmarks ==
    {Landmark(Centre + 15 * k, Centre, Absent, v) : k \in 0..MaxShift, v \in Visibilities}
        \cup {Undefined}
\* ... and at its even (right side) indices
RightLandmarks ==
    {Landmark(Centre, Centre, <<0>>, <<100>>), Landmark(Centre, Centre, <<0>>, <<40>>),
     Landmark(Centre, Centre + 20, Absent, Absent)}

MkLandmarks(len, a, b) == [i \in 1..len |-> IF (i - 1) % 2 = 1 THEN a ELSE b]

PoseInputs ==
    {NullPose, PoseWithoutLandmarks}
        \cup {Pose(MkLandmarks(len, a, b)) : len \in Lengths, a \in LeftLandmarks, b \in RightLandmarks}

JointInputs ==
    {Landmark(Centre + 10 * i, Centre + 10 * j, z, Absent) :
        i \in 0..MaxDelta, j \in 0..MaxDelta,
        z \in {Absent} \cup {<<10 * k>> : k \in -1..MaxDelta}}

Idle == [kind |-> "none"]

PosesIdle == pose1 = NullPose /\ pose2 = NullPose /\ outcome = NotCalled
JointIdle == l1 = Undefined /\ l2 = Undefined /\ similarity = Idle
FeedbackIdle == accuracy = 0 /\ feedback = Idle /\ celebrate = Idle

---------------------------------------------------------------------------
(* Inputs of the renderers: the T-pose figure cut to a length, with some   *)
(* slots holding no landmark, with or without hand landmark sets.          *)
BodyLengths == {0, 1, 16, NumLandmarks}
HoleSets == {{}, {0}, {11, 15}, {27}}

\* the first len entries of lms, the slots of holes emptied
Cut(lms, len, holes) ==
    [i \in 1..len |-> IF (i - 1) \in holes THEN Undefined ELSE lms[i]]

Bodies == {Cut(createTPose, len, holes) : len \in BodyLengths, holes \in HoleSets}

HandPoints == 21
\* the 21 points of a hand around a wrist at (x, y)
HandAt(x, y) ==
    [i \in 1..HandPoints |-> Landmark(x + ((i - 1) % 4) - 2, y - ((i - 1) \div 4), <<0>>, Absent)]

LeftHand == [landmarks |-> HandAt(10, 35)]
RightHand == [landmarks |-> HandAt(90, 35)]
\* a hand set object that carries no landmark array
HandWithoutLandmarks == [handedness |-> "Left"]

\* hand landmark sets: complete, with the wrist point or finger points absent,
\* shorter than 21, empty, and without the array
HandSets ==
    {LeftHand,
     [landmarks |-> Cut(HandAt(10, 35), HandPoints, {0})],
     [landmarks |-> Cut(HandAt(10, 35), HandPoints, {6, 20})],
     [landmarks |-> Cut(HandAt(10, 35), 5, {})],
     [landmarks |-> <<>>],
     HandWithoutLandmarks}

Styles == {"monkey", "human", "cat", "dog", "bird", "robot"}

WithHands(pose, left, right) ==
    pose @@ (IF left = Absent THEN <<>> ELSE [leftHand |-> left[1]])
         @@ (IF right = Absent THEN <<>> ELSE [rightHand |-> right[1]])

\* the nose alone: landmarks of length 1
NoseOnly == Cut(createTPose, 1, {})

\* poses carrying hands: every hand set on the full figure; a complete hand and a
\* hand without its array on the figure without a left wrist, on the empty
\* landmark array and on the pose without a landmark array; right hands
PosesWithHands ==
    {WithHands(Pose(createTPose), <<left>>, Absent) : left \in HandSets}
        \cup {WithHands(pose, <<left>>, Absent) :
                pose \in {Pose(Cut(createTPose, NumLandmarks, {15})), Pose(<<>>),
                          PoseWithoutLandmarks},
                left \in {LeftHand, HandWithoutLandmarks}}
        \cup {WithHands(Pose(createTPose), Absent, <<RightHand>>),
              WithHands(Pose(createTPose), <<LeftHand>>, <<RightHand>>)}

BodyPoses == {NullPose, PoseWithoutLandmarks} \cup {Pose(lms) : lms \in Bodies}

\* (pose, avatarType) props per component
AvatarProps ==
    (BodyPoses \X {"monkey"})
        \cup ({Pose(createTPose), Pose(NoseOnly)} \X Styles)
        \cup (PosesWithHands \X {"monkey"})
MinimalProps ==
    (BodyPoses \X {"monkey"})
        \cup ({Pose(createTPose), Pose(NoseOnly)} \X Styles)
        \cup ({WithHands(Pose(createTPose), <<LeftHand>>, Absent)} \X {"monkey"})
ReferenceProps ==
    (BodyPoses \X {"monkey"})
        \cup ({Pose(createTPose), WithHands(Pose(<<>>), <<LeftHand>>, Absent)} \X {"robot"})

Components == {"AvatarRenderer", "AvatarRendererMinimal", "ReferenceAvatarRenderer"}

NotRendered == [kind |-> "none"]
RenderIdle ==
    /\ canvas = [component |-> "none", ctx |-> FreshContext, surface |-> <<>>]
    /\ render = NotRendered
TrackerIdle == tracker = [kind |-> "none"]

---------------------------------------------------------------------------
(* Spec: calculatePoseSimilarity on two drawn poses *)
Init ==
    /\ pose1 \in PoseInputs
    /\ pose2 \in PoseInputs
    /\ outcome = NotCalled
    /\ JointIdle
    /\ FeedbackIdle
    /\ RenderIdle
    /\ TrackerIdle

CalculatePoseSimilarity ==
    /\ outcome = NotCalled
    /\ outcome' = calculatePoseSimilarity(pose1, pose2)
    /\ UNCHANGED <<rendererVars, tracker, pose1, pose2, l1, l2, similarity, accuracy, feedback, celebrate>>

Next == CalculatePoseSimilarity

Spec == Init /\ [][Next]_vars

---------------------------------------------------------------------------
(* SpecJoint: calculateJointSimilarity on two drawn landmarks *)
InitJoint ==
    /\ l1 \in JointInputs
    /\ l2 \in JointInputs
    /\ similarity = Idle
    /\ PosesIdle
    /\ FeedbackIdle
    /\ RenderIdle
    /\ TrackerIdle

CalculateJointSimilarity ==
    /\ similarity = Idle
    /\ similarity' = [kind |-> "return", value |-> calculateJointSimilarity(l1, l2)]
    /\ UNCHANGED <<rendererVars, tracker, pose1, pose2, outcome, l1, l2, accuracy, feedback, celebrate>>

NextJoint == CalculateJointSimilarity

SpecJoint == InitJoint /\ [][NextJoint]_vars

---------------------------------------------------------------------------
(* SpecFeedback: getFeedbackMessage and shouldCelebrate on a drawn score *)
InitFeedback ==
    /\ accuracy \in 0..Percent
    /\ feedback = Idle
    /\ celebrate = Idle
    /\ PosesIdle
    /\ JointIdle
    /\ RenderIdle
    /\ TrackerIdle

GetFeedbackMessage ==
    /\ feedback = Idle
    /\ feedback' = [kind |-> "return", value |-> getFeedbackMessage(accuracy)]
    /\ UNCHANGED <<rendererVars, tracker, pose1, pose2, outcome, l1, l2, similarity, accuracy, celebrate>>

ShouldCelebrate ==
    /\ celebrate = Idle
    /\ celebrate' = [kind |-> "return", value |-> shouldCelebrate(accuracy)]
    /\ UNCHANGED <<rendererVars, tracker, pose1, pose2, outcome, l1, l2, similarity, accuracy, feedback>>

NextFeedback == GetFeedbackMessage \/ ShouldCelebrate

SpecFeedback == InitFeedback /\ [][NextFeedback]_vars

---------------------------------------------------------------------------
(* SpecTPose: calculatePoseSimilarity of a live pose against the T-pose    *)
(* reference; the live pose is the T-pose with its key joints moved.       *)
MaxDisplacement == 4     \* displacements of 0, 0.1, .., 0.1 * MaxDisplacement

Directions == {"right", "left", "outward", "inward"}

\* the sign of the x displacement of joint idx
SignOf(direction, idx) ==
    CASE direction = "right" -> 1
      [] direction = "left" -> -1
      [] direction = "outward" -> (IF idx % 2 = 1 THEN -1 ELSE 1)
      [] OTHER -> (IF idx % 2 = 1 THEN 1 ELSE -1)

\* lms with every key joint moved by dx (signed by direction) and dy
Displaced(lms, direction, dx, dy) ==
    [i \in 1..Len(lms) |->
        IF (i - 1) \in KeySet
        THEN [lms[i] EXCEPT !.x = @ + SignOf(direction, i - 1) * dx, !.y = @ + dy]
        ELSE lms[i]]

LivePoses ==
    {Pose(Displaced(createTPose, direction, 10 * dx, 10 * dy)) :
        direction \in Directions, dx \in 0..MaxDisplacement, dy \in 0..3}

InitTPose ==
    /\ pose1 \in LivePoses
    /\ pose2 = Pose(createTPose)
    /\ outcome = NotCalled
    /\ JointIdle
    /\ FeedbackIdle
    /\ RenderIdle
    /\ TrackerIdle

NextTPose == CalculatePoseSimilarity

SpecTPose == InitTPose /\ [][NextTPose]_vars

---------------------------------------------------------------------------
(* SpecKeys: calculatePoseSimilarity on the catalog poses and on figures   *)
(* of several lengths, with joints moved, hidden or missing.               *)
KeyLengths == {0, 12, 14, 29, NumLandmarks}

\* lms with the left wrist (15) at visibility 0.4
HiddenWrist(lms) == Assign(lms, 15, [At(lms, 15) EXCEPT !.visibility = <<40>>])

KeyFigures ==
    {createTPose, createVictoryPose, createWarriorPose,
     Displaced(createTPose, "right", 10, 0),
     HiddenWrist(createTPose),
     Cut(createTPose, NumLandmarks, {13})}

KeyPoses ==
    {NullPose, PoseWithoutLandmarks}
        \cup {Pose(SubSeq(lms, 1, len)) : lms \in KeyFigures, len \in KeyLengths}

InitKeys ==
    /\ pose1 \in KeyPoses
    /\ pose2 \in KeyPoses
    /\ outcome = NotCalled
    /\ JointIdle
    /\ FeedbackIdle
    /\ RenderIdle
    /\ TrackerIdle

NextKeys == CalculatePoseSimilarity

SpecKeys == InitKeys /\ [][NextKeys]_vars

---------------------------------------------------------------------------
(* PoseTracker (src/src/components/PoseTracker.tsx).  A closure is what the *)
(* functions of one render of the component see of its state; callbacks    *)
(* handed to the browser keep the closure of the render that made them.    *)
(* The toasts are shown by another component and are left out.             *)
MaxPending == 3          \* callbacks awaiting the browser: getUserMedia answers,
                         \* animation frames and celebration timeouts together
MaxFrameCount == 1       \* frames counted before a second has gone by

TrackerMounted ==
    [mounted |-> TRUE,
     isTracking |-> FALSE, isInitialized |-> FALSE, currentPose |-> NullPose,
     fps |-> 0, selectedReferencePose |-> 1, accuracy |-> 0, isCelebrating |-> FALSE,
     srcObject |-> FALSE,            \* videoRef.current.srcObject holds a live stream
     onloadedmetadata |-> <<>>,      \* the handler the stream's loadedmetadata is to run
     animationFrameRef |-> FALSE,    \* animationFrameRef.current holds a request id
     fpsCountRef |-> 0, isTrackingRef |-> FALSE,
     requests |-> <<>>,              \* closures of startTracking calls at their await
     frames |-> <<>>,                \* requested animation frames: closure, latest id
     timers |-> 0,                   \* pending setTimeout(() => setIsCelebrating(false))
     initPending |-> TRUE]           \* initializePoseDetection() is still to settle

\* the state the functions of the current render close over
Closure(t) ==
    [selectedReferencePose |-> t.selectedReferencePose, isCelebrating |-> t.isCelebrating]

\* the pose detectPose returns: the user holds the T-pose
LiveDetections == {Pose(createTPose)}

\* a loop that requests no further frame
RequestFrameDropped(frames, closure) == frames

\* requestAnimationFrame(callback): the new request holds the latest id
RequestFrame(frames, closure) ==
    [k \in 1..Len(frames) |-> [frames[k] EXCEPT !.latest = FALSE]]
        \o <<[closure |-> closure, latest |-> TRUE]>>

\* frames without its k-th element
Without(frames, k) == [j \in 1..(Len(frames) - 1) |-> IF j < k THEN frames[j] ELSE frames[j + 1]]

\* cancelAnimationFrame(animationFrameRef.current)
CancelLatest(frames) ==
    IF \E k \in 1..Len(frames) : frames[k].latest
    THEN Without(frames, CHOOSE k \in 1..Len(frames) : frames[k].latest)
    ELSE frames

\* detectPoseLoop without the test of isTrackingRef
detectPoseLoopUnguarded(t, closure, elapsed, ready, pose) ==
    IF ~t.mounted THEN t
    ELSE
    LET counted == [t EXCEPT !.fpsCountRef = @ + 1]
        timed == IF elapsed
                 THEN [counted EXCEPT !.fps = counted.fpsCountRef, !.fpsCountRef = 0]
                 ELSE counted
        referencePose == Pose(REFERENCE_POSES[closure.selectedReferencePose].landmarks)
        frameSimilarity == calculatePoseSimilarity(pose, referencePose).value
        scored == [timed EXCEPT !.currentPose = pose,
                                !.accuracy = frameSimilarity]
        celebrated == IF shouldCelebrate(frameSimilarity) /\ ~closure.isCelebrating
                      THEN [scored EXCEPT !.isCelebrating = TRUE, !.timers = @ + 1]
                      ELSE scored
        detected == IF ready /\ pose # NullPose THEN celebrated ELSE timed
    IN  [detected EXCEPT !.animationFrameRef = TRUE,
                         !.frames = RequestFrame(@, closure)]

\* detectPoseLoop of the render with the given closure, on tracker state t;
\* elapsed: a second has gone by; ready: video.readyState >= 2; pose: detectPose's result
detectPoseLoop(t, closure, elapsed, ready, pose) ==
    IF ~t.mounted \/ ~t.isTrackingRef THEN t
    ELSE
    LET counted == [t EXCEPT !.fpsCountRef = @ + 1]
        timed == IF elapsed
                 THEN [counted EXCEPT !.fps = counted.fpsCountRef, !.fpsCountRef = 0]
                 ELSE counted
        referencePose == Pose(REFERENCE_POSES[closure.selectedReferencePose].landmarks)
        frameSimilarity == calculatePoseSimilarity(pose, referencePose).value
        scored == [timed EXCEPT !.currentPose = pose,
                                !.accuracy = frameSimilarity]
        celebrated == IF shouldCelebrate(frameSimilarity) /\ ~closure.isCelebrating
                      THEN [scored EXCEPT !.isCelebrating = TRUE, !.timers = @ + 1]
                      ELSE scored
        detected == IF ready /\ pose # NullPose THEN celebrated ELSE timed
    IN  [detected EXCEPT !.animationFrameRef = TRUE,
                         !.frames = RequestFrame(@, closure)]

stopTracking(t) ==
    [t EXCEPT !.isTrackingRef = FALSE,
              !.srcObject = FALSE,
              !.onloadedmetadata = <<>>,
              !.frames = IF t.animationFrameRef THEN CancelLatest(@) ELSE @,
              !.isTracking = FALSE,
              !.currentPose = NullPose,
              !.fps = 0]

\* the body of startTracking up to its await
startTracking(t) ==
    IF ~t.isInitialized THEN t
    ELSE [t EXCEPT !.requests = Append(@, Closure(t))]

\* videoRef.current.onloadedmetadata of the render with the given closure
onloadedmetadata(t, closure, elapsed, ready, pose) ==
    LET playing == IF t.mounted THEN [t EXCEPT !.isTracking = TRUE] ELSE t
        looped == detectPoseLoop([playing EXCEPT !.isTrackingRef = TRUE],
                                 closure, elapsed, ready, pose)
    IN  looped

---------------------------------------------------------------------------
(* SpecTracker: the component from its mount to its unmount, driven by     *)
(* the user's clicks and the browser's callbacks.                          *)
InitTracker ==
    /\ tracker = TrackerMounted
    /\ PosesIdle /\ JointIdle /\ FeedbackIdle /\ RenderIdle

\* the reference pose buttons the user clicks
Selectable == {1, 2}

\* the callbacks of the component the browser still holds
Pending(t) == Len(t.requests) + Len(t.frames) + t.timers

\* what one run of the loop body can observe
Elapsed == IF tracker.fpsCountRef + 1 >= MaxFrameCount THEN {TRUE} ELSE BOOLEAN
\* detectPose is called on a ready video only, and may find no pose
Detections(ready) == IF ready THEN LiveDetections \cup {NullPose} ELSE {NullPose}

\* initializePoseDetection() resolves
InitPoseResolved ==
    /\ tracker.initPending
    /\ tracker' = [tracker EXCEPT !.initPending = FALSE,
                                  !.isInitialized = IF tracker.mounted THEN TRUE ELSE @]
    /\ UNCHANGED <<scorerVars, rendererVars>>

\* initializePoseDetection() rejects
InitPoseRejected ==
    /\ tracker.initPending
    /\ tracker' = [tracker EXCEPT !.initPending = FALSE]
    /\ UNCHANGED <<scorerVars, rendererVars>>

\* a click on Start Tracking: shown while isTracking is false, disabled
\* until isInitialized
StartTracking ==
    /\ tracker.mounted /\ ~tracker.isTracking /\ tracker.isInitialized
    /\ Pending(tracker) < MaxPending
    /\ tracker' = startTracking(tracker)
    /\ UNCHANGED <<scorerVars, rendererVars>>

\* getUserMedia resolves with a stream
StreamGranted ==
    /\ tracker.requests # <<>>
    /\ tracker' = IF tracker.mounted
                  THEN [tracker EXCEPT !.requests = Tail(@),
                                       !.srcObject = TRUE,
                                       !.onloadedmetadata = <<Head(tracker.requests)>>]
                  ELSE [tracker EXCEPT !.requests = Tail(@)]
    /\ UNCHANGED <<scorerVars, rendererVars>>

\* getUserMedia rejects
StreamDenied ==
    /\ tracker.requests # <<>>
    /\ tracker' = [tracker EXCEPT !.requests = Tail(@)]
    /\ UNCHANGED <<scorerVars, rendererVars>>

\* the video element fires loadedmetadata for its stream
LoadedMetadata ==
    /\ tracker.srcObject /\ tracker.onloadedmetadata # <<>>
    /\ \E elapsed \in Elapsed, ready \in BOOLEAN :
       \E pose \in Detections(ready) :
           tracker' = onloadedmetadata([tracker EXCEPT !.onloadedmetadata = <<>>],
                                       tracker.onloadedmetadata[1], elapsed, ready, pose)
    /\ Pending(tracker') <= MaxPending
    /\ UNCHANGED <<scorerVars, rendererVars>>

\* the browser runs the oldest requested animation frame callback
AnimationFrame ==
    /\ tracker.frames # <<>>
    /\ \E elapsed \in Elapsed, ready \in BOOLEAN :
       \E pose \in Detections(ready) :
           tracker' = detectPoseLoop([tracker EXCEPT !.frames = Tail(@)],
                                     Head(tracker.frames).closure, elapsed, ready, pose)
    /\ Pending(tracker') <= MaxPending
    /\ UNCHANGED <<scorerVars, rendererVars>>

\* a celebration timeout fires after its 2 seconds
CelebrationTimeout ==
    /\ tracker.timers > 0
    /\ tracker' = [tracker EXCEPT !.timers = @ - 1,
                                  !.isCelebrating = IF tracker.mounted THEN FALSE ELSE @]
    /\ UNCHANGED <<scorerVars, rendererVars>>

\* a click on one of the reference pose buttons
SelectReferencePose ==
    /\ tracker.mounted
    /\ \E refPose \in Selectable :
           tracker' = [tracker EXCEPT !.selectedReferencePose = refPose]
    /\ UNCHANGED <<scorerVars, rendererVars>>

\* a click on Stop Tracking: shown while isTracking is true
StopTracking ==
    /\ tracker.mounted /\ tracker.isTracking
    /\ tracker' = stopTracking(tracker)
    /\ UNCHANGED <<scorerVars, rendererVars>>

\* the component unmounts: the cleanup of the effect calls stopTracking;
\* whether videoRef.current is still attached then depends on the React build.
\* React discards the state of the component: the state fields read as at mount.
Unmount ==
    /\ tracker.mounted
    /\ \E attached \in BOOLEAN :
           LET stopped == stopTracking(tracker)
               detached == [stopped EXCEPT !.srcObject = tracker.srcObject,
                                           !.onloadedmetadata = tracker.onloadedmetadata]
               cleaned == IF attached THEN stopped ELSE detached
           IN  tracker' = [cleaned EXCEPT !.mounted = FALSE,
                                          !.isTracking = TrackerMounted.isTracking,
                                          !.isInitialized = TrackerMounted.isInitialized,
                                          !.currentPose = TrackerMounted.currentPose,
                                          !.fps = TrackerMounted.fps,
                                          !.selectedReferencePose =
                                              TrackerMounted.selectedReferencePose,
                                          !.accuracy = TrackerMounted.accuracy,
                                          !.isCelebrating = TrackerMounted.isCelebrating]
    /\ UNCHANGED <<scorerVars, rendererVars>>

NextTracker ==
    \/ InitPoseResolved \/ InitPoseRejected
    \/ StartTracking \/ StreamGranted \/ StreamDenied \/ LoadedMetadata
    \/ AnimationFrame \/ CelebrationTimeout
    \/ SelectReferencePose \/ StopTracking \/ Unmount

SpecTracker == InitTracker /\ [][NextTracker]_vars

---------------------------------------------------------------------------
(* SpecRender: one mounted renderer, its effect run for props after props   *)
(* on the same canvas.  An effect that throws takes the component down.    *)
InitRender ==
    /\ canvas \in [component : Components, ctx : {FreshContext}, surface : {<<>>}]
    /\ render = NotRendered
    /\ PosesIdle
    /\ JointIdle
    /\ FeedbackIdle
    /\ TrackerIdle

Mounted == IF render.kind = "none" THEN TRUE ELSE ~render.threw

\* the effect: the calls cmds made on the canvas's context
RunEffect(pose, avatarType, cmds) ==
    \E st \in {ExecuteAll(EffectStart(canvas.ctx, canvas.surface), cmds)} :
        /\ canvas' = [canvas EXCEPT !.ctx = st.ctx, !.surface = st.surface]
        /\ render' = [kind |-> "effect", pose |-> pose, avatarType |-> avatarType,
                      issued |-> st.issued, threw |-> st.threw]
        /\ UNCHANGED <<scorerVars, tracker>>

RenderAvatar ==
    /\ canvas.component = "AvatarRenderer"
    /\ Mounted
    /\ \E props \in AvatarProps :
            RunEffect(props[1], props[2], AvatarRenderer(props[1], props[2]))

RenderAvatarMinimal ==
    /\ canvas.component = "AvatarRendererMinimal"
    /\ Mounted
    /\ \E props \in MinimalProps :
            RunEffect(props[1], props[2], AvatarRendererMinimal(props[1], props[2]))

RenderReference ==
    /\ canvas.component = "ReferenceAvatarRenderer"
    /\ Mounted
    /\ \E props \in ReferenceProps :
            RunEffect(props[1], props[2], ReferenceAvatarRenderer(props[1], props[2]))

NextRender == RenderAvatar \/ RenderAvatarMinimal \/ RenderReference

SpecRender == InitRender /\ [][NextRender]_vars

---------------------------------------------------------------------------
(* Vocabulary of the properties, stated from the arguments alone *)

Called == outcome.kind # "none"
ReturnedScore == outcome.kind = "return"

\* every slot of the pose's array (if it has one) holds a landmark
NoHoles(p) ==
    HasLandmarks(p) => \A i \in 1..Len(p.landmarks) : IsLandmark(p.landmarks[i])

\* the visibility the specification gives a landmark: 1 when absent
VisibilityOf(l) == IF l.visibility = Absent THEN Grid ELSE l.visibility[1]

\* the joint idx is present in the pose and visible enough
EligibleIn(p, idx) ==
    /\ HasLandmarks(p)
    /\ idx < Len(p.landmarks)
    /\ IsLandmark(At(p.landmarks, idx))
    /\ 2 * VisibilityOf(At(p.landmarks, idx)) >= Grid

EligibleJoints(p1, p2) == {idx \in KeySet : EligibleIn(p1, idx) /\ EligibleIn(p2, idx)}

RECURSIVE SumOver(_, _, _)
SumOver(S, p1, p2) ==
    IF S = {} THEN 0
    ELSE LET idx == CHOOSE i \in S : TRUE
         IN  calculateJointSimilarity(At(p1.landmarks, idx), At(p2.landmarks, idx))
                + SumOver(S \ {idx}, p1, p2)

\* n is the integer nearest to 100 * total / (count * SimScale), halves upwards
IsRoundedMean(n, total, count) ==
    /\ (2 * n - 1) * count * SimScale <= 2 * Percent * total
    /\ 2 * Percent * total < (2 * n + 1) * count * SimScale

---------------------------------------------------------------------------
(* Properties of calculatePoseSimilarity (Spec) *)

BothHaveLandmarks == HasLandmarks(pose1) /\ HasLandmarks(pose2)

C2_CountedIffEligible ==
    ReturnedScore => outcome.compared = EligibleJoints(pose1, pose2)

\* C3: the call never raises on absent data: a key index whose slot holds no
\* landmark in either array is skipped and a score is still returned, and a
\* short array only causes the out-of-range joints to be skipped.
C3_NeverRaises ==
    Called =>
        /\ ReturnedScore
        /\ \A idx \in outcome.compared :
              EligibleIn(pose1, idx) /\ EligibleIn(pose2, idx)

\* C4: the score is round(100 * mean of the per-joint similarities over the
\* eligible key joints only); a joint that is not eligible adds neither to the
\* sum nor to the count, wherever it lies.
C4_MeanOverEligible ==
    (ReturnedScore /\ BothHaveLandmarks /\ EligibleJoints(pose1, pose2) # {})
        => IsRoundedMean(outcome.value,
                         SumOver(EligibleJoints(pose1, pose2), pose1, pose2),
                         Cardinality(EligibleJoints(pose1, pose2)))

C8_ZeroWhenNoneEligible ==
    (Called /\ NoHoles(pose1) /\ NoHoles(pose2) /\ EligibleJoints(pose1, pose2) = {})
        => (ReturnedScore /\ outcome.value = 0)

---------------------------------------------------------------------------
(* Properties of calculateJointSimilarity (SpecJoint) *)

DepthOf(l) == IF l.z = Absent THEN 0 ELSE l.z[1]

\* 10 * Grid^2 * (dx^2 + dy^2 + 0.3 * dz^2), from the two landmarks' fields
ScaledSquare ==
    10 * (l1.x - l2.x) * (l1.x - l2.x) + 10 * (l1.y - l2.y) * (l1.y - l2.y)
        + 3 * (DepthOf(l1) - DepthOf(l2)) * (DepthOf(l1) - DepthOf(l2))

\* d >= 0.3, i.e. d^2 >= 0.09
AtLeastScale == 10 * ScaledSquare >= 9 * Grid * Grid

\* (SimScale * d / 0.3)^2 = SquareFactor * ScaledSquare
SquareFactor == (10 * SimScale * SimScale) \div (9 * Grid * Grid)

\* C5: the per-joint similarity is clamp(1 - d/0.3, 0, 1) with
\* d = sqrt(dx^2 + dy^2 + 0.3 dz^2), an absent z counting as 0: it is 1 at
\* d = 0, 0 whenever d >= 0.3, strictly between and linear in d otherwise, and
\* never outside [0, 1].
C5_JointSimilarity ==
    similarity.kind = "return" =>
        LET sim == similarity.value
        IN  /\ sim \in 0..SimScale
            /\ ScaledSquare = 0 => sim = SimScale
            /\ AtLeastScale => sim = 0
            /\ (ScaledSquare > 0 /\ ~AtLeastScale) =>
                  /\ 0 < sim /\ sim < SimScale
                  /\ (SimScale - sim) * (SimScale - sim) <= SquareFactor * ScaledSquare
                  /\ SquareFactor * ScaledSquare
                        < (SimScale - sim + 1) * (SimScale - sim + 1)

C5_Witness ==
    /\ similarity.kind = "return"
    /\ 0 < similarity.value /\ similarity.value < SimScale
    /\ l1.z # Absent /\ l2.z = Absent
    /\ DepthOf(l1) # 0
    /\ l1.x # l2.x

---------------------------------------------------------------------------
(* Properties of getFeedbackMessage and shouldCelebrate (SpecFeedback) *)

Messages == <<"Try again", "Keep trying", "Good", "Great", "Perfect">>
Bands == <<0..39, 40..59, 60..74, 75..89, 90..Percent>>
TierOf(m) == CHOOSE t \in 1..Len(Messages) : Messages[t] = m.message

\* C9: every score in 0..100 falls in exactly one of five contiguous bands
\* closed below: >= 90 Perfect, 75..89 Great, 60..74 Good, 40..59 Keep trying,
\* 0..39 Try again; the tier never decreases as the score grows.
C9_FeedbackBands ==
    feedback.kind = "return" =>
        /\ \A t \in 1..Len(Bands) :
              accuracy \in Bands[t] <=> feedback.value.message = Messages[t]
        /\ \A lower \in 0..accuracy :
              TierOf(getFeedbackMessage(lower)) <= TierOf(feedback.value)

C9_Witness ==
    /\ feedback.kind = "return"
    /\ accuracy = 89
    /\ feedback.value.message = "Great"

\* C10: shouldCelebrate(s) holds exactly when s >= 85; every score of the
\* Perfect band celebrates, and 85..89 celebrate while the tier is still Great.
C10_CelebrateThreshold ==
    celebrate.kind = "return" =>
        /\ celebrate.value <=> accuracy >= 85
        /\ feedback.kind = "return" =>
              /\ feedback.value.message = "Perfect" => celebrate.value
              /\ accuracy \in 85..89 =>
                    (celebrate.value /\ feedback.value.message = "Great")

C10_Witness ==
    /\ celebrate.kind = "return" /\ feedback.kind = "return"
    /\ accuracy = 85
    /\ celebrate.value
    /\ feedback.value.message = "Great"

---------------------------------------------------------------------------
(* Renderers: vocabulary of the properties *)

\* the effect has run on the canvas of component c
Rendered(c) == render.kind = "effect" /\ canvas.component = c
RenderedAny == render.kind = "effect"

FullClear == ClearRect(0, 0, Px(CanvasWidth), Px(CanvasHeight))

\* what the last invocation issued, call by call
Drawn(k) == render.issued[k].drawn
IsPrimitive(k) == Drawn(k).op \in {"fill", "stroke"}
Primitives == {k \in 1..Len(render.issued) : IsPrimitive(k)}

\* the invocation cleared the full surface and issued nothing else
ClearedOnly ==
    /\ Len(render.issued) = 1
    /\ Drawn(1) = FullClear
    /\ canvas.surface = <<>>

\* C11: a renderer (enhanced, minimal or reference) invoked with a null pose
\* clears the full surface and issues no drawing primitive afterwards.
C11_NullPoseClears ==
    (RenderedAny /\ render.pose = NullPose) => ClearedOnly

\* the part of C11 the two avatar renderers meet
C11_AvatarNullPoseClears ==
    ((Rendered("AvatarRenderer") \/ Rendered("AvatarRendererMinimal"))
        /\ render.pose = NullPose) => ClearedOnly

\* pose.landmarks is missing or an empty array
NoBodyLandmarks(pose) ==
    IF HasField(pose, "landmarks") THEN pose.landmarks = <<>> ELSE TRUE

\* C12: on every invocation of the avatar renderer the full-surface clear is the
\* first operation on the surface, and with an empty or missing body landmark
\* array nothing is drawn after the clear, whatever the style and whatever
\* hand landmark sets the pose carries.
C12_ClearFirstAndNothingWithoutBody ==
    (Rendered("AvatarRenderer") \/ Rendered("AvatarRendererMinimal")) =>
        /\ Len(render.issued) >= 1
        /\ Drawn(1) = FullClear
        /\ NoBodyLandmarks(render.pose) => ClearedOnly

\* what the calls cmds issue on a canvas just created
IssuedOnFreshCanvas(cmds) == ExecuteAll(EffectStart(FreshContext, <<>>), cmds).issued

\* C13: given identical landmarks, the avatar renderer invoked with an
\* unrecognized style id issues exactly the primitives (geometry, colours) it
\* issues for the default style id 'monkey'.
C13_UnknownStyleDrawsMonkey ==
    (Rendered("AvatarRenderer") /\ render.avatarType \notin DOMAIN avatarConfig) =>
        IssuedOnFreshCanvas(AvatarRenderer(render.pose, render.avatarType))
            = IssuedOnFreshCanvas(AvatarRenderer(render.pose, "monkey"))

\* the twelve limbs, as pairs of endpoint indices
Limbs ==
    {<<11, 12>>, <<11, 23>>, <<12, 24>>, <<23, 24>>,
     <<11, 13>>, <<13, 15>>, <<12, 14>>, <<14, 16>>,
     <<23, 25>>, <<25, 27>>, <<24, 26>>, <<26, 28>>}

\* the indices at which the mounted renderer draws markers whenever a landmark is there
MarkerIndices ==
    IF canvas.component = "AvatarRenderer"
    THEN {jointIndices[k] : k \in 1..Len(jointIndices)}
    ELSE {jointIndicesMinimal[k] : k \in 1..Len(jointIndicesMinimal)}

HasHead == canvas.component \in {"AvatarRenderer", "AvatarRendererMinimal"}

\* the straight path between two landmarks
Segment(a, b) ==
    <<MoveTo(ScreenX(a), ScreenY(a)), LineTo(ScreenX(b), ScreenY(b))>>

\* primitive k of the last invocation is the stroke of the limb start-end
IsLimbStroke(k, start, end) ==
    /\ render.issued[k].element = [kind |-> "limb", start |-> start, end |-> end]
    /\ Drawn(k).op = "stroke"

LimbDrawn(start, end) == \E k \in Primitives : IsLimbStroke(k, start, end)
MarkerDrawn(index) ==
    \E k \in Primitives :
        /\ render.issued[k].element = [kind |-> "joint", index |-> index]
        /\ Drawn(k).op = "fill"
HeadDrawn == \E k \in Primitives : render.issued[k].element = [kind |-> "head"]

\* a hand set on which drawHand reads hand[0].x of no landmark
RaisingHand(pose, field) ==
    IF HasField(pose, field) /\ HasField(pose[field], "landmarks")
    THEN ~Present(pose[field].landmarks, 0) ELSE FALSE
RaisingHands(pose) == RaisingHand(pose, "leftHand") \/ RaisingHand(pose, "rightHand")

\* C14: for every landmark array (any length up to 33, any slots empty) a limb
\* is drawn if and only if both of its endpoints hold a landmark, a joint
\* marker if and only if its index holds one, the head if and only if index 0
\* holds one; no error is raised and every limb stroke runs between its two
\* landmarks.
C14_DrawnIffPresent ==
    (RenderedAny /\ HasField(render.pose, "landmarks") /\ ~RaisingHands(render.pose)) =>
        LET landmarks == render.pose.landmarks
        IN  /\ ~render.threw
            /\ \A limb \in Limbs :
                  LimbDrawn(limb[1], limb[2])
                      <=> (Present(landmarks, limb[1]) /\ Present(landmarks, limb[2]))
            /\ \A index \in MarkerIndices :
                  MarkerDrawn(index) <=> Present(landmarks, index)
            /\ HasHead => (HeadDrawn <=> Present(landmarks, 0))
            /\ \A k \in Primitives :
                  \A limb \in Limbs :
                      IsLimbStroke(k, limb[1], limb[2]) =>
                          /\ Present(landmarks, limb[1]) /\ Present(landmarks, limb[2])
                          /\ Drawn(k).path = Segment(At(landmarks, limb[1]),
                                                     At(landmarks, limb[2]))

\* the figure without its left shoulder and wrist: the limbs from 11 and to 15
\* are skipped, the others, the head and the remaining markers are drawn
C14_Witness ==
    /\ Rendered("AvatarRenderer")
    /\ HasField(render.pose, "landmarks")
    /\ Len(render.pose.landmarks) = NumLandmarks
    /\ ~Present(render.pose.landmarks, 11)
    /\ ~LimbDrawn(11, 12) /\ ~LimbDrawn(13, 15) /\ LimbDrawn(12, 14)
    /\ ~MarkerDrawn(11) /\ MarkerDrawn(13)
    /\ HeadDrawn
    /\ ~render.threw

\* the left hand set of the last invocation's pose carries a landmark array
LeftHandRendered ==
    IF Rendered("AvatarRenderer") /\ HasField(render.pose, "landmarks")
           /\ HasField(render.pose, "leftHand")
    THEN HasField(render.pose.leftHand, "landmarks") ELSE FALSE

\* the primitives of the last invocation that belong to the left hand
LeftHandPrimitives ==
    {k \in Primitives : /\ render.issued[k].section = "leftHand"
                        /\ render.issued[k].element.kind = "hand"}

\* finger segments (from, to) and markers (point, radius) of a hand
FingerSegments ==
    {<<fingers[f][i], fingers[f][i + 1]>> : f \in 1..Len(fingers), i \in 1..4}
HandMarkers ==
    {<<4, 6>>, <<8, 5>>, <<12, 5>>, <<16, 5>>, <<20, 5>>,
     <<1, 4>>, <<5, 4>>, <<9, 4>>, <<13, 4>>, <<17, 4>>}

HandSegmentDrawn(hand, from, to) ==
    \E k \in LeftHandPrimitives :
        /\ Drawn(k).op = "stroke"
        /\ Drawn(k).path = Segment(At(hand, from), At(hand, to))
HandMarkerDrawn(hand, point, radius) ==
    \E k \in LeftHandPrimitives :
        /\ Drawn(k).op = "fill"
        /\ Drawn(k).path = <<Arc(ScreenX(At(hand, point)), ScreenY(At(hand, point)),
                                 Px(radius), 0, TwoPi)>>

\* every segment and marker whose points are present is drawn, and nothing else
\* of the hand but its palm
HandDrawnWherePresent(hand) ==
    LET segments == {seg \in FingerSegments : Present(hand, seg[1]) /\ Present(hand, seg[2])}
        markers == {mk \in HandMarkers : Present(hand, mk[1])}
    IN  /\ \A seg \in segments : HandSegmentDrawn(hand, seg[1], seg[2])
        /\ \A mk \in markers : HandMarkerDrawn(hand, mk[1], mk[2])
        /\ Cardinality({k \in LeftHandPrimitives : Drawn(k).op = "stroke"})
              = Cardinality(segments)
        /\ Cardinality({k \in LeftHandPrimitives : Drawn(k).op = "fill"})
              = Cardinality(markers) + 1

\* C15: with a hand landmark set present but some of its 21 points absent (the
\* wrist point 0 included, or the set shorter than 21), drawHand skips exactly
\* the finger segments and markers that need an absent point, draws all the
\* others, and raises no error.
C15_HandSkipsOnlyAbsent ==
    LeftHandRendered =>
        /\ ~render.threw
        /\ HandDrawnWherePresent(render.pose.leftHand.landmarks)

\* the part of C15 that holds: hand sets whose wrist point 0 is present
C15_HandWithWristPoint ==
    (LeftHandRendered /\ ~RaisingHand(render.pose, "leftHand")) =>
        /\ ~render.threw
        /\ HandDrawnWherePresent(render.pose.leftHand.landmarks)

\* the radius of the joint markers proper (the extremity markers are larger)
JointMarkerRadius == IF canvas.component = "AvatarRenderer" THEN 10 ELSE 8

\* the place of primitive k in the drawing order: the torso limbs one by one
\* (1..4), arms (5), legs (6), head (7), joint markers (8), hands or wrist
\* markers (9), feet markers (10)
OrderOf(k) ==
    LET e == render.issued[k].element
    IN  CASE e.kind = "limb" ->
                 (CASE <<e.start, e.end>> = <<11, 12>> -> 1
                    [] <<e.start, e.end>> = <<11, 23>> -> 2
                    [] <<e.start, e.end>> = <<12, 24>> -> 3
                    [] <<e.start, e.end>> = <<23, 24>> -> 4
                    [] e.start \in {11, 12, 13, 14} /\ e.end \in {13, 14, 15, 16} -> 5
                    [] OTHER -> 6)
          [] e.kind = "head" -> 7
          [] e.kind = "joint" ->
                 (IF Drawn(k).path[1].r \in {Px(JointMarkerRadius), Px(JointMarkerRadius + 3)}
                  THEN 8
                  ELSE IF e.index \in {15, 16} THEN 9 ELSE 10)
          [] e.kind = "hand" -> 9
          [] OTHER -> 0

\* C16: in every invocation that draws a figure the elements appear in the
\* order torso limbs (shoulder line, left torso, right torso, hip line), arm
\* limbs, leg limbs, head, joint markers, extremities (hands or wrist markers,
\* then feet markers): no element of an earlier group follows one of a later
\* group.
C16_DrawingOrder ==
    (Rendered("AvatarRenderer") \/ Rendered("AvatarRendererMinimal")) =>
        \A j, k \in Primitives : j < k => OrderOf(j) <= OrderOf(k)

\* a figure with every group: limbs, head, joints, a hand, a wrist marker, feet
C16_Witness ==
    /\ Rendered("AvatarRenderer")
    /\ ~render.threw
    /\ \A place \in 1..10 : \E k \in Primitives : OrderOf(k) = place
    /\ \E k \in Primitives : render.issued[k].element.kind = "hand"
    /\ \E k \in Primitives :
          render.issued[k].element = [kind |-> "joint", index |-> 16] /\ OrderOf(k) = 9

\* the calls the mounted renderer makes for props (pose, avatarType)
EffectOf(pose, avatarType) ==
    CASE canvas.component = "AvatarRenderer" -> AvatarRenderer(pose, avatarType)
      [] canvas.component = "AvatarRendererMinimal" -> AvatarRendererMinimal(pose, avatarType)
      [] OTHER -> ReferenceAvatarRenderer(pose, avatarType)

\* C17: the output of an invocation is a function of (pose, style) only:
\* whatever was rendered before on the same canvas, the primitives and their
\* effective attributes (line cap, join and width, stroke and fill style,
\* shadow, alpha) are those the same props give on a canvas just created.
C17_OutputFunctionOfProps ==
    Rendered("AvatarRenderer") =>
        render.issued = IssuedOnFreshCanvas(EffectOf(render.pose, render.avatarType))

\* the two sides of the figure: field of the hand set, wrist index, section drawn in
Sides ==
    {[field |-> "leftHand", wrist |-> 15, section |-> "leftHand"],
     [field |-> "rightHand", wrist |-> 16, section |-> "rightHand"]}

\* the last invocation drew a detailed hand, resp. a wrist marker, for the side
DetailedHandDrawn(side) ==
    \E k \in Primitives :
        /\ render.issued[k].section = side.section
        /\ render.issued[k].element.kind = "hand"
WristMarkerDrawn(side) ==
    \E k \in Primitives :
        /\ render.issued[k].section = side.section
        /\ render.issued[k].element = [kind |-> "joint", index |-> side.wrist]

\* a hand landmark set with at least one point is attached for the side
HandSetAttached(pose, side) ==
    IF HasField(pose, side.field) /\ HasField(pose[side.field], "landmarks")
    THEN \E i \in 0..(HandPoints - 1) : Present(pose[side.field].landmarks, i)
    ELSE FALSE

\* C20: for each side of a pose with body landmarks the enhanced renderer
\* draws the detailed hand if a hand landmark set is attached for that side,
\* otherwise a single wrist marker if the wrist landmark is present; never
\* both, and never neither when the wrist landmark is present.
C20_OneHandPerSide ==
    (Rendered("AvatarRenderer") /\ HasField(render.pose, "landmarks")) =>
        \A side \in Sides :
            /\ HandSetAttached(render.pose, side) =>
                  (DetailedHandDrawn(side) /\ ~WristMarkerDrawn(side))
            /\ (~HasField(render.pose, side.field)
                    /\ Present(render.pose.landmarks, side.wrist)) =>
                  (WristMarkerDrawn(side) /\ ~DetailedHandDrawn(side))
            /\ ~(DetailedHandDrawn(side) /\ WristMarkerDrawn(side))
            /\ Present(render.pose.landmarks, side.wrist) =>
                  (DetailedHandDrawn(side) \/ WristMarkerDrawn(side))

\* pose1 is the T-pose with every key joint moved by exactly 0.3 in x, same y
DisplacedByThreeTenths ==
    \E direction \in Directions : pose1 = Pose(Displaced(createTPose, direction, 30, 0))

ScoreAgainst(pose, refPose) ==
    calculatePoseSimilarity(pose, Pose(REFERENCE_POSES[refPose].landmarks)).value

\* C18: while tracking runs, the accuracy computed for a frame is the score
\* of that frame's live pose against the reference pose selected at that
\* moment, also after the user has selected another reference pose without
\* restarting tracking.
C18_ScoredAgainstSelected ==
    [][(/\ tracker'.currentPose # NullPose
        /\ <<tracker'.currentPose, tracker'.accuracy>> # <<tracker.currentPose, tracker.accuracy>>)
       => tracker'.accuracy = ScoreAgainst(tracker'.currentPose, tracker.selectedReferencePose)]_vars

---------------------------------------------------------------------------
(* The detailed hand *)

\* all 21 points of the hand landmark set hold a landmark
CompleteHand(hand) ==
    Len(hand) = HandPoints /\ \A i \in 0..(HandPoints - 1) : Present(hand, i)

\* the side's hand landmark set of the last invocation is complete and drawHand
\* ran on it to its end
CompleteHandRendered(side) ==
    IF Rendered("AvatarRenderer") /\ HasField(render.pose, "landmarks")
           /\ HasField(render.pose, side.field) /\ ~render.threw
    THEN IF HasField(render.pose[side.field], "landmarks")
         THEN CompleteHand(render.pose[side.field].landmarks) ELSE FALSE
    ELSE FALSE

\* the primitives the last invocation issued for the side's hand, in order
HandPrimitives(side) ==
    LET OfHand(e) == /\ e.section = side.section
                     /\ e.element.kind = "hand"
                     /\ e.drawn.op \in {"fill", "stroke"}
    IN  SelectSeq(render.issued, OfHand)

PalmThrough(points) == [kind |-> "palm", through |-> points]
FingerSegment(from, to, width) ==
    [kind |-> "segment", from |-> from, to |-> to, width |-> width]
HandMarker(index) == [kind |-> "marker", index |-> index]

\* what a primitive shows of the hand: the palm polygon, a segment between two
\* of its points with its width, or a filled circle centred on one of its points
ShapeOf(drawn, hand) ==
    LET point(i) == <<ScreenX(At(hand, i)), ScreenY(At(hand, i))>>
        indices == 0..(HandPoints - 1)
        ends == {seg \in indices \X indices :
                    drawn.path = Segment(At(hand, seg[1]), At(hand, seg[2]))}
        centres == {i \in indices : drawn.path[1].at = point(i)}
        corners == [k \in 1..(Len(drawn.path) - 1) |->
                       IF \E i \in indices : drawn.path[k].at = point(i)
                       THEN CHOOSE i \in indices : drawn.path[k].at = point(i)
                       ELSE -1]
    IN  IF drawn.op = "stroke" /\ ends # {}
        THEN LET seg == CHOOSE seg \in ends : TRUE
             IN  FingerSegment(seg[1], seg[2], drawn.lineWidth)
        ELSE IF drawn.op = "fill" /\ Len(drawn.path) = 1
        THEN IF drawn.path[1].op = "arc" /\ drawn.path[1].angles = <<0, TwoPi>>
                    /\ centres # {}
             THEN HandMarker(CHOOSE i \in centres : TRUE)
             ELSE [kind |-> "other"]
        ELSE IF drawn.op = "fill" /\ Len(drawn.path) > 1
        THEN IF /\ drawn.path[1].op = "moveTo"
                /\ drawn.path[Len(drawn.path)].op = "closePath"
                /\ \A k \in 2..(Len(drawn.path) - 1) : drawn.path[k].op = "lineTo"
             THEN PalmThrough(corners)
             ELSE [kind |-> "other"]
        ELSE [kind |-> "other"]

HandShapes(side) ==
    LET issued == HandPrimitives(side)
    IN  [k \in 1..Len(issued) |-> ShapeOf(issued[k].drawn, render.pose[side.field].landmarks)]

\* finger f (thumb 1 to pinky 5): its 4 segments from the wrist to the
\* fingertip, then the fingertip marker
FingerShapes(f) ==
    LET chain == <<0, 4 * f - 3, 4 * f - 2, 4 * f - 1, 4 * f>>
        width == IF f = 1 THEN 8 ELSE 6
    IN  [i \in 1..4 |-> FingerSegment(chain[i], chain[i + 1], width)]
            \o <<HandMarker(4 * f)>>

CompleteHandShapes ==
    <<PalmThrough(<<0, 5, 9, 13, 17>>)>>
        \o FingerShapes(1) \o FingerShapes(2) \o FingerShapes(3)
        \o FingerShapes(4) \o FingerShapes(5)
        \o <<HandMarker(1), HandMarker(5), HandMarker(9), HandMarker(13), HandMarker(17)>>

\* C21: for a hand landmark set with all 21 points present drawHand issues, in
\* this order, the filled palm polygon through points 0, 5, 9, 13, 17, then for
\* each finger from the thumb its 4 segments from the wrist to the fingertip
\* (width 8 for the thumb, 6 for the others) followed by its fingertip marker,
\* then the 5 base-knuckle markers: 20 segments and 10 markers in total.
C21_CompleteHandSequence ==
    \A side \in Sides :
        CompleteHandRendered(side) =>
            /\ HandShapes(side) = CompleteHandShapes
            /\ Cardinality({k \in 1..Len(HandShapes(side)) :
                               HandShapes(side)[k].kind = "segment"}) = 20
            /\ Cardinality({k \in 1..Len(HandShapes(side)) :
                               HandShapes(side)[k].kind = "marker"}) = 10

C21_Witness ==
    /\ CompleteHandRendered([field |-> "leftHand", wrist |-> 15, section |-> "leftHand"])
    /\ CompleteHandRendered([field |-> "rightHand", wrist |-> 16, section |-> "rightHand"])
    /\ Len(HandShapes([field |-> "rightHand", wrist |-> 16, section |-> "rightHand"])) = 31

---------------------------------------------------------------------------
(* The comparison subset *)

\* what the slots outside the comparison subset are refilled with
Fillers == {Undefined, Landmark(0, 0, <<90>>, <<40>>), Landmark(Centre, Centre, Absent, <<100>>)}

\* the lengths that leave the same comparison indices inside the array as n does
LengthsLike(n) ==
    {m \in 0..NumLandmarks : \A idx \in KeySet : (idx < m) <=> (idx < n)}

\* the first len slots: lms at the comparison indices, the filler elsewhere
Refill(lms, filler, len) ==
    [i \in 1..len |-> IF (i - 1) \in KeySet THEN lms[i] ELSE filler]

\* poses that agree with pose p at every index of the comparison subset
AgreeingAtKeys(p) ==
    IF p = NullPose \/ ~HasLandmarks(p) THEN {p}
    ELSE {p} \cup {Pose(Refill(p.landmarks, filler, len)) :
                      filler \in Fillers,
                      len \in {m \in LengthsLike(Len(p.landmarks)) :
                                  \/ \A n \in LengthsLike(Len(p.landmarks)) : m <= n
                                  \/ \A n \in LengthsLike(Len(p.landmarks)) : m >= n}}

\* every pair of poses agreeing with (pose1, pose2) at the comparison subset
\* has the outcome of (pose1, pose2)
DependsOnKeysOnly ==
    \A q1 \in AgreeingAtKeys(pose1), q2 \in AgreeingAtKeys(pose2) :
        calculatePoseSimilarity(q1, q2) = outcome

\* C22 as stated: the score depends only on the landmarks at the comparison
\* subset, and at most 10 joints ever enter the average.
C22_TenKeyJoints ==
    Called =>
        /\ DependsOnKeysOnly
        /\ ReturnedScore =>
              (outcome.validComparisons <= 10 /\ Cardinality(outcome.compared) <= 10)

\* C22 amended: the score depends only on the landmarks at the 12 indices of
\* the comparison subset (both shoulders, elbows, wrists, hips, knees and
\* ankles): pairs of poses that agree at every index of the subset get the
\* same score whatever the landmarks at the other indices are, and at most
\* 12 joints ever enter the average.
C22_KeyJointsOnly ==
    Called =>
        /\ DependsOnKeysOnly
        /\ ReturnedScore =>
              /\ outcome.compared \subseteq KeySet
              /\ outcome.validComparisons = Cardinality(outcome.compared)
              /\ outcome.validComparisons <= 12

C22_Witness ==
    /\ ReturnedScore
    /\ pose1 = Pose(createTPose)
    /\ pose2 = Pose(SubSeq(createVictoryPose, 1, 29))
    /\ Cardinality(outcome.compared) = 12
    /\ Cardinality(AgreeingAtKeys(pose1)) > 6

---------------------------------------------------------------------------
(* Placement on the surface *)

\* lms with z and visibility replaced at the landmarks of the given index parities
Redepth(lms, z, v, parities) ==
    [i \in 1..Len(lms) |->
        IF IsLandmark(lms[i]) /\ ((i - 1) % 2) \in parities
        THEN [lms[i] EXCEPT !.z = z, !.visibility = v]
        ELSE lms[i]]

\* pose with z and visibility replaced in its body and hand landmarks
RedepthPose(pose, z, v, parities) ==
    [f \in DOMAIN pose |->
        IF f = "landmarks" THEN Redepth(pose[f], z, v, parities)
        ELSE IF f \in {"leftHand", "rightHand"}
        THEN IF HasField(pose[f], "landmarks")
             THEN [pose[f] EXCEPT !.landmarks = Redepth(@, z, v, parities)]
             ELSE pose[f]
        ELSE pose[f]]

\* poses that differ from pose in the z or the visibility of landmarks only
DepthVariants(pose) ==
    {RedepthPose(pose, Absent, Absent, {0, 1}),
     RedepthPose(pose, <<-50>>, <<0>>, {0, 1}),
     RedepthPose(pose, <<30>>, <<40>>, {1}),
     RedepthPose(pose, <<0>>, <<40>>, {0})}

\* the point (x * W, y * H) of a landmark on the surface, in 1/Grid pixel
PlaceOf(l) == <<l.x * CanvasWidth, l.y * CanvasHeight>>

\* primitive k is placed on the landmarks of the element it draws: a limb runs
\* from the place of its start to the place of its end, a joint marker is a
\* circle centred on the place of its landmark
PlacedOnLandmarks(k) ==
    LET e == render.issued[k].element
        path == Drawn(k).path
        lms == render.pose.landmarks
    IN  /\ e.kind = "limb" =>
              /\ Len(path) = 2
              /\ path[1].op = "moveTo" /\ path[1].at = PlaceOf(At(lms, e.start))
              /\ path[2].op = "lineTo" /\ path[2].at = PlaceOf(At(lms, e.end))
        /\ e.kind = "joint" =>
              /\ Len(path) = 1
              /\ path[1].op \in {"arc", "ellipse"}
              /\ path[1].at = PlaceOf(At(lms, e.index))

\* C23: every point the renderer derives from a landmark is placed at
\* (x * W, y * H) of the W x H surface, and the output does not depend on the
\* depth or the visibility of the landmarks: poses that differ only in z or
\* visibility make the renderer issue identical calls, hence identical primitives.
C23_PlacedByXYOnly ==
    RenderedAny =>
        /\ \A k \in Primitives : PlacedOnLandmarks(k)
        /\ \A variant \in DepthVariants(render.pose) :
              EffectOf(variant, render.avatarType) = EffectOf(render.pose, render.avatarType)

C23_Witness ==
    /\ Rendered("AvatarRenderer")
    /\ render.pose = WithHands(Pose(createTPose), <<LeftHand>>, <<RightHand>>)
    /\ render.pose \notin DepthVariants(render.pose)
    /\ LimbDrawn(11, 13) /\ MarkerDrawn(13)
    /\ ~render.threw

---------------------------------------------------------------------------
(* The detection loop *)

\* the detectPoseLoop invocations the next displayed frame triggers: every
\* requested animation frame callback runs then
LoopsOfNextFrame == Len(tracker.frames)

\* C24: at most one detection loop is active at any time, whatever the
\* interleaving of Start clicks, camera answers, loadedmetadata events,
\* animation frames and Stop clicks: a displayed frame triggers at most one
\* detectPoseLoop invocation.
C24_AtMostOneLoop ==
    (tracker.mounted /\ tracker.isTrackingRef) => LoopsOfNextFrame <= 1

\* tracking is stopped: the component is mounted and isTrackingRef is false
Stopped(t) == t.mounted /\ ~t.isTrackingRef

\* C25: after stopTracking has run, currentPose is null, fps is 0 and
\* isTracking is false, and until tracking is started again (loadedmetadata
\* of a stream runs the start handler) no detectPoseLoop invocation, an
\* animation frame callback that was already requested included, detects,
\* changes currentPose or accuracy, or requests another frame.
C25_StoppedStaysStopped ==
    [][\* stopTracking has run: isTracking went from true to false
       /\ (tracker.mounted /\ tracker'.mounted /\ tracker.isTracking /\ ~tracker'.isTracking)
             => Stopped(tracker')
       /\ Stopped(tracker') =>
             /\ ~tracker'.isTracking
             /\ tracker'.currentPose = NullPose
             /\ tracker'.fps = 0
       \* tracking is started again by the loadedmetadata of a stream only
       /\ (Stopped(tracker) /\ tracker'.isTrackingRef) =>
             (tracker.srcObject /\ tracker.onloadedmetadata # <<>>)
       \* until then nothing is detected or scored and no frame is requested
       /\ (Stopped(tracker) /\ Stopped(tracker')) =>
             /\ tracker'.accuracy = tracker.accuracy
             /\ tracker'.fpsCountRef = tracker.fpsCountRef
             /\ tracker'.timers <= tracker.timers
             /\ Len(tracker'.frames) <= Len(tracker.frames)
             /\ \A k \in 1..Len(tracker'.frames) :
                   \E n \in 1..Len(tracker.frames) : tracker'.frames[k] = tracker.frames[n]]_vars

\* tracking was stopped while an animation frame callback was still requested
C25_Witness ==
    /\ Stopped(tracker)
    /\ tracker.animationFrameRef
    /\ ~tracker.srcObject
    /\ Len(tracker.frames) = 1

\* C26: celebrations are not replayed: while isCelebrating is true a further
\* frame, whatever its score, starts no new celebration and sets up no other
\* timeout; at most one 2-second timeout is pending; and a celebration is
\* switched off by its own timeout, the only one pending, so that it stays on
\* for its full 2 seconds.
C26_NoCelebrationReplay ==
    [][/\ (tracker.mounted /\ tracker.isCelebrating) => tracker'.timers <= tracker.timers
       /\ tracker'.mounted => tracker'.timers <= 1
       /\ (tracker.mounted /\ tracker'.mounted
             /\ tracker.isCelebrating /\ ~tracker'.isCelebrating) =>
                (tracker.timers = 1 /\ tracker'.timers = 0)]_vars

\* the step is an iteration of the running loop that found no pose: the video
\* was not ready, or detectPose returned null
NoPoseIteration ==
    /\ tracker.mounted
    /\ \E elapsed \in BOOLEAN, ready \in BOOLEAN :
          \/ /\ tracker.isTrackingRef /\ tracker.frames # <<>>
             /\ tracker' = detectPoseLoop([tracker EXCEPT !.frames = Tail(@)],
                                          Head(tracker.frames).closure,
                                          elapsed, ready, NullPose)
          \/ /\ tracker.srcObject /\ tracker.onloadedmetadata # <<>>
             /\ tracker' = onloadedmetadata([tracker EXCEPT !.onloadedmetadata = <<>>],
                                            tracker.onloadedmetadata[1],
                                            elapsed, ready, NullPose)

\* C27: an iteration of detectPoseLoop that obtains no pose leaves currentPose,
\* accuracy and isCelebrating as they were and sets up no celebration timeout,
\* and it still requests the next animation frame, with itself as the callback.
C27_NoPoseFrameKeepsState ==
    [][NoPoseIteration =>
          /\ tracker'.currentPose = tracker.currentPose
          /\ tracker'.accuracy = tracker.accuracy
          /\ tracker'.isCelebrating = tracker.isCelebrating
          /\ tracker'.timers = tracker.timers
          /\ tracker'.animationFrameRef
          /\ tracker'.frames # <<>>
          /\ tracker'.frames[Len(tracker'.frames)].latest
          /\ \A k \in 1..(Len(tracker'.frames) - 1) : ~tracker'.frames[k].latest
          /\ Len(tracker'.frames) =
                Len(tracker.frames) + (IF tracker.onloadedmetadata # tracker'.onloadedmetadata
                                       THEN 1 ELSE 0)]_vars

\* the loop runs and has counted a second of frames, none of which gave a pose
\* since tracking was started
C27_Witness ==
    /\ tracker.mounted /\ tracker.isTrackingRef
    /\ tracker.fps > 0
    /\ tracker.currentPose = NullPose
    /\ tracker.frames # <<>>

----------------------------------------------------------------------------
(* The catalog *)

\* the catalog pose of the given position, as calculatePoseSimilarity receives it
CatalogPose(i) == Pose(REFERENCE_POSES[i].landmarks)

=========================================================================
